---- MODULE Spec2Model ----
(***************************************************************************)
(* Model of AIVA: the chat, message-action and workspace routes over the   *)
(* schema created by createTables, the start-up of the Azure service       *)
(* clients, the file analysis service and the Dashboard component.         *)
(*                                                                         *)
(* Every database round trip (every `await pool.request()...query(...)`)   *)
(* is one atomic action; the synchronous code between two awaits belongs   *)
(* to the action of the round trip it follows.                             *)
(***************************************************************************)
EXTENDS Integers, Sequences, FiniteSets, TLC

VARIABLES
    Users,        \* table Users: set of [id, email]
    Workspaces,   \* table Workspaces: set of [id, name, ownerId]
    Chats,        \* table Chats: set of [id, userId, workspaceId, messageCount, isArchived]
    Messages,     \* table Messages in createdAt order: Seq([id, chatId, userId, role, content])
    nextUuid,     \* number of uuidv4() values handed out so far
    devBypass,    \* NODE_ENV === 'development' && BYPASS_AUTH === 'true'
    req,          \* the in-flight / last request of every connection slot
    started,      \* number of requests received so far
    env,          \* process.env as read by the Azure services module
    svc,          \* the Azure services module: its exported clients and its progress
    MessageActions, \* table MessageActions: set of [id, messageId, userId, actionType]
    ui,           \* the state of the Dashboard component
    calc,         \* the call of a service function under way: its arguments and result
    WorkspaceUsers \* table WorkspaceUsers: set of [id, workspaceId, userId, accessLevel]

vars == <<Users, Workspaces, Chats, Messages, nextUuid, devBypass, req, started, env, svc,
          MessageActions, ui, calc, WorkspaceUsers>>

otherVars == <<MessageActions, ui, calc, WorkspaceUsers>>

dbVars == <<Users, Workspaces, Chats, Messages, nextUuid>>

----------------------------------------------------------------------------
(* Bounds of the model. *)

\* requests received in one behaviour when requests are served one at a time
MaxRequests == 2

\* requests received in one behaviour in which requests are interleaved
MaxConcRequests == 2

\* message-action requests received in one behaviour
MaxActionRequests == 3

\* sendMessage calls of the dashboard in one behaviour
MaxSends == 2

\* files selected in the dashboard in one behaviour
MaxFiles == 2

\* stored files are up to this many characters longer or shorter than the
\* limit of extractFileContent (and up to this many characters long)
MaxOver == 12

\* clicks on the action buttons of the messages
MaxClicks == 3


----------------------------------------------------------------------------
(* Values. *)

NULL == "null"

\* ids carried by the authentication token
UserIds == {"u1", "u2"}

\* `${userId}@example.com`
DerivedEmail(userId) == userId \o "@example.com"

Emails == {DerivedEmail(u) : u \in UserIds}

\* the n-th value returned by uuidv4()
Uuid(n) == "id" \o ToString(n)

\* a well-formed UUID the client generated itself and the server never stored
LocalUuid == "local-uuid"

\* a workspaceId that does not match the UUID pattern
MalformedId == "not-a-uuid"

Slots == {1, 2}

\* req.body.message: a string is a sequence of one-character strings
MessageTexts == {<<" ">>, <<" ", "h", "i">>}

\* req.body.files: absent, [], an array of file objects, or a value that is
\* not an array (a plain object, which has no length property)
FilesAbsent == [present |-> FALSE, isArray |-> FALSE, items |-> <<>>]
FilesEmpty  == [present |-> TRUE, isArray |-> TRUE, items |-> <<>>]
FilesOne    == [present |-> TRUE, isArray |-> TRUE,
                items |-> <<[originalName |-> "a.txt", url |-> "https://blob/a"]>>]
FilesNoName == [present |-> TRUE, isArray |-> TRUE,
                items |-> <<[originalName |-> NULL, url |-> "https://blob/a"]>>]
FilesObject == [present |-> TRUE, isArray |-> FALSE, items |-> <<>>]

FileInputs == {FilesAbsent, FilesOne, FilesNoName, FilesObject}

PlaceholderText == "Sorry, I encountered an issue processing your request. Please try again."

AiText == "ai-response"

----------------------------------------------------------------------------
(* JavaScript helpers used by the handlers. *)

IsSpace(c) == c \in {" ", "\t", "\n"}

RECURSIVE TrimStart(_)
TrimStart(s) == IF s = <<>> THEN <<>>
                ELSE IF IsSpace(Head(s)) THEN TrimStart(Tail(s)) ELSE s

RECURSIVE TrimEnd(_)
TrimEnd(s) == IF s = <<>> THEN <<>>
              ELSE IF IsSpace(s[Len(s)]) THEN TrimEnd(SubSeq(s, 1, Len(s) - 1)) ELSE s

\* String.prototype.trim
Trim(s) == TrimEnd(TrimStart(s))

\* !message || message.trim().length === 0
MessageBlank(message) == message = <<>> \/ Len(Trim(message)) = 0

\* files && files.length > 0   (undefined > 0 is false)
FilesNonEmpty(files) == files.present /\ files.isArray /\ Len(files.items) > 0

\* !files || files.length === 0   (undefined === 0 is false)
FilesMissingOrEmpty(files) ==
    ~files.present \/ (files.isArray /\ Len(files.items) = 0)

----------------------------------------------------------------------------
(* The schema of createTables: the constraints the statements of the       *)
(* handlers can violate.  A violated constraint makes the query throw.     *)

\* SELECT id FROM Users WHERE id = @userId
UsersWithId(id) == {u \in Users : u.id = id}

\* SELECT id FROM Users WHERE email = @email
UsersWithEmail(email) == {u \in Users : u.email = email}

\* rows that reference Users(id): Workspaces.ownerId, Chats.userId, Messages.userId
UserIsReferenced(id) ==
    \/ \E w \in Workspaces : w.ownerId = id
    \/ \E c \in Chats : c.userId = id
    \/ \E i \in 1..Len(Messages) : Messages[i].userId = id

\* INSERT INTO Users: PRIMARY KEY (id), UNIQUE (email)
InsertUserViolation(id, email) ==
    IF UsersWithId(id) # {} THEN "pk_users"
    ELSE IF UsersWithEmail(email) # {} THEN "unique_email"
    ELSE "none"

\* UPDATE Users SET id = @id WHERE email = @email: the key of the matching
\* row changes; the foreign keys on Users(id) have no ON UPDATE action, so a
\* referenced key cannot change, and the new key must not exist already
UpdateUserIdViolation(id, email) ==
    LET rows == {u \in UsersWithEmail(email) : u.id # id}
    IN  IF rows = {} THEN "none"
        ELSE IF \E u \in rows : UserIsReferenced(u.id) THEN "fk_users"
        ELSE IF UsersWithId(id) # {} THEN "pk_users"
        ELSE "none"

UsersAfterUpdateId(id, email) ==
    (Users \ UsersWithEmail(email)) \cup {[id |-> id, email |-> email] : u \in UsersWithEmail(email)}

\* INSERT INTO Workspaces: FOREIGN KEY (ownerId) REFERENCES Users(id)
InsertWorkspaceViolation(ownerId) ==
    IF UsersWithId(ownerId) = {} THEN "fk_workspaces_owner" ELSE "none"

\* INSERT INTO Chats: FOREIGN KEY (userId) REFERENCES Users(id),
\* FOREIGN KEY (workspaceId) REFERENCES Workspaces(id)
InsertChatViolation(userId, workspaceId) ==
    IF UsersWithId(userId) = {} THEN "fk_chats_user"
    ELSE IF workspaceId # NULL /\ ~(\E w \in Workspaces : w.id = workspaceId)
         THEN "fk_chats_workspace"
    ELSE "none"

\* INSERT INTO Messages: FOREIGN KEY (chatId) REFERENCES Chats(id),
\* FOREIGN KEY (userId) REFERENCES Users(id)
InsertMessageViolation(chatId, userId) ==
    IF ~(\E c \in Chats : c.id = chatId) THEN "fk_messages_chat"
    ELSE IF UsersWithId(userId) = {} THEN "fk_messages_user"
    ELSE "none"

\* ChatsAfterCount counting one message only
ChatsAfterCountByOne(chatId) ==
    {IF c.id = chatId THEN [c EXCEPT !.messageCount = @ + 1] ELSE c : c \in Chats}

\* UPDATE Chats SET messageCount = messageCount + 2 ... WHERE id = @chatId
ChatsAfterCount(chatId) ==
    {IF c.id = chatId THEN [c EXCEPT !.messageCount = @ + 2] ELSE c : c \in Chats}

DefaultWorkspace(id, ownerId) ==
    [id |-> id, name |-> "Default Workspace", ownerId |-> ownerId]

----------------------------------------------------------------------------
(* Requests.  req[r] holds the locals of the handler serving slot r.       *)

Snapshot ==
    [users |-> Users, workspaces |-> Workspaces, chats |-> Chats, messages |-> Messages,
     actions |-> MessageActions, assignments |-> WorkspaceUsers]

EmptySnapshot ==
    [users |-> {}, workspaces |-> {}, chats |-> {}, messages |-> <<>>, actions |-> {},
     assignments |-> {}]

IdleRequest ==
    [pc |-> "idle", route |-> "none", userId |-> NULL, chatId |-> NULL,
     workspaceId |-> NULL, message |-> <<>>, files |-> FilesAbsent,
     actualWorkspaceId |-> NULL, actualChatId |-> NULL, userMessageId |-> NULL,
     content |-> <<>>, history |-> <<>>, prompt |-> <<>>, llmCalls |-> 0,
     openAIError |-> FALSE, status |-> 0, error |-> "", violation |-> "none",
     log |-> <<>>, pass |-> 1, before |-> EmptySnapshot,
     messageId |-> NULL, actionType |-> "none", active |-> FALSE,
     userIds |-> [present |-> FALSE, isArray |-> FALSE, items |-> <<>>],
     accessLevel |-> NULL, name |-> NULL, member |-> NULL, at |-> 1]

\* res.status(status).json({error}) followed by return
Respond(q, status, error) == [q EXCEPT !.pc = "done", !.status = status, !.error = error]

\* a query that throws lands in the catch of the handler: 500 with its error text
Throw(q, error, violation) ==
    [q EXCEPT !.pc = "done", !.status = 500, !.error = error, !.violation = violation]

Logged(q, step) == [q EXCEPT !.log = Append(@, step)]

\* /^[0-9a-f]{8}-[0-9a-f]{4}-...$/i.test(id)
IsUuidFormat(id) == id \notin {NULL, MalformedId}

ChatIdInputs == {NULL, LocalUuid} \cup {c.id : c \in Chats}

WorkspaceIdInputs == {NULL, MalformedId, LocalUuid} \cup {w.id : w \in Workspaces}

\* lines 264-300: the checks made before the first await
MessageValidation(message, files) ==
    IF MessageBlank(message) /\ FilesMissingOrEmpty(files)
    THEN "Message content or files are required"
    ELSE IF FilesNonEmpty(files)
            /\ \E i \in 1..Len(files.items) :
                  files.items[i].originalName = NULL \/ files.items[i].url = NULL
    THEN "Invalid file format"
    ELSE "ok"

\* the section appended for the attached files (one entry per file)
FileSection(files) ==
    [i \in 1..Len(files.items) |-> "File: " \o files.items[i].originalName]

\* lines 456-559: userMessageContent
UserMessageContent(message, files) ==
    LET text == Trim(message)
    IN  IF FilesNonEmpty(files)
        THEN IF text # <<>>
             THEN text \o <<"\n\nAttached Files:\n">> \o FileSection(files)
             ELSE <<"Analyze the following files:\n\n">> \o FileSection(files)
        ELSE text

MessageFailure == "Failed to process message"

\* the title of a new chat keeps the first 100 characters of the message
TitleChars == 100

\* lines 302-311: defaultTitle, a sequence of pieces of text
DefaultTitle(message, files) ==
    IF MessageBlank(message) /\ FilesNonEmpty(files)
    THEN <<"File: " \o files.items[1].originalName>>
         \o (IF Len(files.items) > 1
             THEN <<" and " \o ToString(Len(files.items) - 1) \o " more">>
             ELSE <<>>)
    ELSE <<"New Chat">>

\* line 432: message ? message.substring(0, 100) : defaultTitle
ChatTitle(message, defaultTitle) ==
    IF message # <<>>
    THEN SubSeq(message, 1, IF Len(message) < TitleChars THEN Len(message) ELSE TitleChars)
    ELSE defaultTitle

----------------------------------------------------------------------------
(* POST /chat/message *)

\* a request is received on the first free connection
FreeSlot(r) == req[r].pc = "idle" /\ \A o \in Slots : o < r => req[o].pc # "idle"

MsgStart(r, limit, callers, texts, fileInputs) ==
    /\ FreeSlot(r)
    /\ started < limit
    /\ \E userId \in callers, message \in texts, files \in fileInputs :
         LET q == [IdleRequest EXCEPT !.route = "message", !.userId = userId,
                      !.message = message, !.files = files, !.before = Snapshot]
             v == MessageValidation(message, files)
         IN  req' = [req EXCEPT ![r] =
                        IF v = "ok" THEN [q EXCEPT !.pc = "userCheck"] ELSE Respond(q, 400, v)]
    /\ started' = started + 1
    /\ UNCHANGED <<dbVars, devBypass, env, svc, otherVars>>

MsgUserCheck(r) ==
    LET q == req[r]
    IN  /\ q.route = "message" /\ q.pc = "userCheck"
        /\ req' = [req EXCEPT ![r] =
              IF UsersWithId(q.userId) # {} THEN Logged([q EXCEPT !.pc = "workspace"], "user")
              ELSE IF devBypass THEN [q EXCEPT !.pc = "emailCheck"]
              ELSE Respond(q, 404, "User not found")]
        /\ UNCHANGED <<dbVars, devBypass, started, env, svc, otherVars>>

MsgEmailCheck(r) ==
    LET q == req[r]
    IN  /\ q.route = "message" /\ q.pc = "emailCheck"
        /\ req' = [req EXCEPT ![r].pc =
              IF UsersWithEmail(DerivedEmail(q.userId)) = {} THEN "userInsert" ELSE "userUpdate"]
        /\ UNCHANGED <<dbVars, devBypass, started, env, svc, otherVars>>

MsgUserInsert(r) ==
    LET q == req[r]
        v == InsertUserViolation(q.userId, DerivedEmail(q.userId))
    IN  /\ q.route = "message" /\ q.pc = "userInsert"
        /\ IF v = "none"
           THEN /\ Users' = Users \cup {[id |-> q.userId, email |-> DerivedEmail(q.userId)]}
                /\ req' = [req EXCEPT ![r] = Logged([q EXCEPT !.pc = "workspace"], "user")]
           ELSE /\ req' = [req EXCEPT ![r] = Throw(q, MessageFailure, v)]
                /\ UNCHANGED Users
        /\ UNCHANGED <<Workspaces, Chats, Messages, nextUuid, devBypass, started, env, svc, otherVars>>

MsgUserUpdate(r) ==
    LET q == req[r]
        v == UpdateUserIdViolation(q.userId, DerivedEmail(q.userId))
    IN  /\ q.route = "message" /\ q.pc = "userUpdate"
        /\ IF v = "none"
           THEN /\ Users' = UsersAfterUpdateId(q.userId, DerivedEmail(q.userId))
                /\ req' = [req EXCEPT ![r] = Logged([q EXCEPT !.pc = "workspace"], "user")]
           ELSE /\ req' = [req EXCEPT ![r] = Throw(q, MessageFailure, v)]
                /\ UNCHANGED Users
        /\ UNCHANGED <<Workspaces, Chats, Messages, nextUuid, devBypass, started, env, svc, otherVars>>

\* req.body.workspaceId is first read here, so the model draws it here
MsgWorkspaceCheck(r) ==
    /\ req[r].route = "message" /\ req[r].pc = "workspace"
    /\ \E workspaceId \in WorkspaceIdInputs :
         LET q == [req[r] EXCEPT !.workspaceId = workspaceId]
             given == IF IsUuidFormat(workspaceId) THEN workspaceId ELSE NULL
             owned == {w \in Workspaces : w.ownerId = q.userId}
         IN  IF given = NULL
             THEN IF owned # {}
                  THEN \E w \in owned :
                         req' = [req EXCEPT ![r] =
                                   Logged([q EXCEPT !.pc = "chat", !.actualWorkspaceId = w.id],
                                          "workspace")]
                  ELSE req' = [req EXCEPT ![r] = [q EXCEPT !.pc = "workspaceInsert"]]
             ELSE IF \E w \in owned : w.id = given
                  THEN req' = [req EXCEPT ![r] =
                                 Logged([q EXCEPT !.pc = "chat", !.actualWorkspaceId = given],
                                        "workspace")]
                  ELSE req' = [req EXCEPT ![r] = [q EXCEPT !.pc = "workspaceInsert"]]
    /\ UNCHANGED <<dbVars, devBypass, started, env, svc, otherVars>>

MsgWorkspaceInsert(r) ==
    LET q == req[r]
        id == Uuid(nextUuid + 1)
        v == InsertWorkspaceViolation(q.userId)
    IN  /\ q.route = "message" /\ q.pc = "workspaceInsert"
        /\ nextUuid' = nextUuid + 1
        /\ IF v = "none"
           THEN /\ Workspaces' = Workspaces \cup {DefaultWorkspace(id, q.userId)}
                /\ req' = [req EXCEPT ![r] =
                             Logged([q EXCEPT !.pc = "chat", !.actualWorkspaceId = id],
                                    "workspace")]
           ELSE /\ req' = [req EXCEPT ![r] = Throw(q, MessageFailure, v)]
                /\ UNCHANGED Workspaces
        /\ UNCHANGED <<Users, Chats, Messages, devBypass, started, env, svc, otherVars>>

\* MsgAfterChat with the completion requested before the user message is stored
MsgAfterChatCompletionFirst(q) ==
    LET content == UserMessageContent(q.message, q.files)
    IN  IF q.files.present /\ ~q.files.isArray
        THEN Respond(q, 400, "Invalid files format")
        ELSE IF content = <<>>
        THEN Respond(q, 400, "Message content or files are required")
        ELSE [q EXCEPT !.pc = "completion", !.content = content]

\* lines 456-567, run after the chat has been resolved
MsgAfterChat(q) ==
    LET content == UserMessageContent(q.message, q.files)
    IN  IF q.files.present /\ ~q.files.isArray
        THEN Respond(q, 400, "Invalid files format")
        ELSE IF content = <<>>
        THEN Respond(q, 400, "Message content or files are required")
        ELSE [q EXCEPT !.pc = "userMessage", !.content = content]

\* req.body.chatId is first read here, so the model draws it here
MsgChat(r) ==
    /\ req[r].route = "message" /\ req[r].pc = "chat"
    /\ \E chatId \in ChatIdInputs :
         LET q == [req[r] EXCEPT !.chatId = chatId]
             id == Uuid(nextUuid + 1)
             v == InsertChatViolation(q.userId, q.actualWorkspaceId)
         IN  IF chatId = NULL
             THEN /\ nextUuid' = nextUuid + 1
                  /\ IF v = "none"
                     THEN /\ Chats' = Chats \cup
                                {[id |-> id, userId |-> q.userId,
                                  workspaceId |-> q.actualWorkspaceId, messageCount |-> 0,
                                  isArchived |-> FALSE]}
                          /\ req' = [req EXCEPT ![r] =
                                MsgAfterChat(Logged([q EXCEPT !.actualChatId = id], "chat"))]
                     ELSE /\ req' = [req EXCEPT ![r] = Throw(q, MessageFailure, v)]
                          /\ UNCHANGED Chats
             ELSE /\ req' = [req EXCEPT ![r] =
                        MsgAfterChat(Logged([q EXCEPT !.actualChatId = chatId], "chat"))]
                  /\ UNCHANGED <<Chats, nextUuid>>
    /\ UNCHANGED <<Users, Workspaces, Messages, devBypass, started, env, svc, otherVars>>

MsgInsertUserMessage(r) ==
    LET q == req[r]
        id == Uuid(nextUuid + 1)
        v == InsertMessageViolation(q.actualChatId, q.userId)
    IN  /\ q.route = "message" /\ q.pc = "userMessage"
        /\ nextUuid' = nextUuid + 1
        /\ IF v = "none"
           THEN /\ Messages' = Append(Messages,
                      [id |-> id, chatId |-> q.actualChatId, userId |-> q.userId,
                       role |-> "user", content |-> q.content])
                /\ req' = [req EXCEPT ![r] =
                      Logged([q EXCEPT !.pc = "history", !.userMessageId = id], "userMessage")]
           ELSE /\ req' = [req EXCEPT ![r] = Throw(q, MessageFailure, v)]
                /\ UNCHANGED Messages
        /\ UNCHANGED <<Users, Workspaces, Chats, devBypass, started, env, svc, otherVars>>

\* SELECT content, role FROM Messages WHERE chatId = @chatId ORDER BY createdAt ASC
ChatHistory(chatId) ==
    LET rows == SelectSeq(Messages, LAMBDA m : m.chatId = chatId)
    IN  [i \in 1..Len(rows) |-> [role |-> rows[i].role, content |-> rows[i].content]]

MsgHistory(r) ==
    LET q == req[r]
    IN  /\ q.route = "message" /\ q.pc = "history"
        /\ req' = [req EXCEPT ![r] =
              [q EXCEPT !.pc = "completion", !.history = ChatHistory(q.actualChatId)]]
        /\ UNCHANGED <<dbVars, devBypass, started, env, svc, otherVars>>

\* lines 594-627: the messages array and the single getChatCompletion call,
\* which either returns a response or throws
MsgCompletion(r) ==
    LET q == req[r]
        messages == <<[role |-> "system", content |-> <<"system-prompt">>]>>
                    \o q.history
                    \o <<[role |-> "user", content |-> q.content]>>
    IN  /\ q.route = "message" /\ q.pc = "completion"
        /\ \E failed \in BOOLEAN :
             req' = [req EXCEPT ![r] =
                Logged([q EXCEPT !.pc = "assistantMessage", !.prompt = messages,
                           !.llmCalls = @ + 1, !.openAIError = failed], "completion")]
        /\ UNCHANGED <<dbVars, devBypass, started, env, svc, otherVars>>

MsgInsertAssistantMessage(r) ==
    LET q == req[r]
        id == Uuid(nextUuid + 1)
        v == InsertMessageViolation(q.actualChatId, q.userId)
    IN  /\ q.route = "message" /\ q.pc = "assistantMessage"
        /\ nextUuid' = nextUuid + 1
        /\ IF v = "none"
           THEN /\ Messages' = Append(Messages,
                      [id |-> id, chatId |-> q.actualChatId, userId |-> q.userId,
                       role |-> "assistant",
                       content |-> IF q.openAIError THEN <<PlaceholderText>> ELSE <<AiText>>])
                /\ req' = [req EXCEPT ![r] =
                      Logged([q EXCEPT !.pc = "counters"], "assistantMessage")]
           ELSE /\ req' = [req EXCEPT ![r] = Throw(q, MessageFailure, v)]
                /\ UNCHANGED Messages
        /\ UNCHANGED <<Users, Workspaces, Chats, devBypass, started, env, svc, otherVars>>

MsgUpdateCounters(r) ==
    LET q == req[r]
    IN  /\ q.route = "message" /\ q.pc = "counters"
        /\ Chats' = ChatsAfterCount(q.actualChatId)
        /\ req' = [req EXCEPT ![r] =
              IF q.openAIError
              THEN Respond(Logged(q, "counters"), 500, "Failed to get AI response")
              ELSE Respond(Logged(q, "counters"), 200, "")]
        /\ UNCHANGED <<Users, Workspaces, Messages, nextUuid, devBypass, started, env, svc, otherVars>>

\* the query a request is waiting for fails (the connection is lost, the
\* request times out): it throws into the catch of lines 697-706
MsgDbError(r) ==
    LET q == req[r]
    IN  /\ q.route = "message"
        /\ q.pc \in {"userMessage", "history", "assistantMessage", "counters"}
        /\ req' = [req EXCEPT ![r] = Throw(q, MessageFailure, "db_error")]
        /\ UNCHANGED <<dbVars, devBypass, started, env, svc, otherVars>>

MsgStep(r) ==
    \/ MsgUserCheck(r)
    \/ MsgEmailCheck(r)
    \/ MsgUserInsert(r)
    \/ MsgUserUpdate(r)
    \/ MsgWorkspaceCheck(r)
    \/ MsgWorkspaceInsert(r)
    \/ MsgChat(r)
    \/ MsgInsertUserMessage(r)
    \/ MsgHistory(r)
    \/ MsgCompletion(r)
    \/ MsgInsertAssistantMessage(r)
    \/ MsgUpdateCounters(r)

----------------------------------------------------------------------------
(* POST /chat *)

ChatFailure == "Failed to create chat"

\* chatId = uuidv4() is taken before anything else
ChatStart(r, limit, callers) ==
    /\ FreeSlot(r)
    /\ started < limit
    /\ \E userId \in callers :
         req' = [req EXCEPT ![r] =
                   [IdleRequest EXCEPT !.route = "chat", !.userId = userId,
                       !.actualChatId = Uuid(nextUuid + 1), !.before = Snapshot,
                       !.pc = IF devBypass THEN "userCheck" ELSE "workspace"]]
    /\ nextUuid' = nextUuid + 1
    /\ started' = started + 1
    /\ UNCHANGED <<Users, Workspaces, Chats, Messages, devBypass, env, svc, otherVars>>

\* the user is looked up twice: before the workspace is resolved (bypass mode
\* only, pass 1) and again before the chat is inserted (pass 2)
ChatUserCheck(r) ==
    LET q == req[r]
        after == IF q.pass = 1 THEN "workspace" ELSE "insertChat"
    IN  /\ q.route = "chat" /\ q.pc = "userCheck"
        /\ req' = [req EXCEPT ![r].pc =
              IF UsersWithId(q.userId) = {} /\ devBypass THEN "emailCheck" ELSE after]
        /\ UNCHANGED <<dbVars, devBypass, started, env, svc, otherVars>>

ChatEmailCheck(r) ==
    LET q == req[r]
    IN  /\ q.route = "chat" /\ q.pc = "emailCheck"
        /\ req' = [req EXCEPT ![r].pc =
              IF UsersWithEmail(DerivedEmail(q.userId)) = {} THEN "userInsert" ELSE "userUpdate"]
        /\ UNCHANGED <<dbVars, devBypass, started, env, svc, otherVars>>

ChatUserInsert(r) ==
    LET q == req[r]
        v == InsertUserViolation(q.userId, DerivedEmail(q.userId))
    IN  /\ q.route = "chat" /\ q.pc = "userInsert"
        /\ IF v = "none"
           THEN /\ Users' = Users \cup {[id |-> q.userId, email |-> DerivedEmail(q.userId)]}
                /\ req' = [req EXCEPT ![r].pc = IF q.pass = 1 THEN "workspace" ELSE "insertChat"]
           ELSE /\ req' = [req EXCEPT ![r] = Throw(q, ChatFailure, v)]
                /\ UNCHANGED Users
        /\ UNCHANGED <<Workspaces, Chats, Messages, nextUuid, devBypass, started, env, svc, otherVars>>

ChatUserUpdate(r) ==
    LET q == req[r]
        v == UpdateUserIdViolation(q.userId, DerivedEmail(q.userId))
    IN  /\ q.route = "chat" /\ q.pc = "userUpdate"
        /\ IF v = "none"
           THEN /\ Users' = UsersAfterUpdateId(q.userId, DerivedEmail(q.userId))
                /\ req' = [req EXCEPT ![r].pc = IF q.pass = 1 THEN "workspace" ELSE "insertChat"]
           ELSE /\ req' = [req EXCEPT ![r] = Throw(q, ChatFailure, v)]
                /\ UNCHANGED Users
        /\ UNCHANGED <<Workspaces, Chats, Messages, nextUuid, devBypass, started, env, svc, otherVars>>

\* req.body.workspaceId is first read here, so the model draws it here; the
\* id is not checked against the UUID pattern in this handler
ChatWorkspaceCheck(r) ==
    /\ req[r].route = "chat" /\ req[r].pc = "workspace"
    /\ \E workspaceId \in WorkspaceIdInputs :
         LET q == [req[r] EXCEPT !.workspaceId = workspaceId, !.pass = 2]
             owned == {w \in Workspaces : w.ownerId = q.userId}
         IN  IF workspaceId = NULL
             THEN IF owned # {}
                  THEN \E w \in owned :
                         req' = [req EXCEPT ![r] =
                                   [q EXCEPT !.pc = "userCheck", !.actualWorkspaceId = w.id]]
                  ELSE req' = [req EXCEPT ![r] = [q EXCEPT !.pc = "workspaceInsert"]]
             ELSE IF \E w \in owned : w.id = workspaceId
                  THEN req' = [req EXCEPT ![r] =
                                 [q EXCEPT !.pc = "userCheck", !.actualWorkspaceId = workspaceId]]
                  ELSE req' = [req EXCEPT ![r] = [q EXCEPT !.pc = "workspaceExists"]]
    /\ UNCHANGED <<dbVars, devBypass, started, env, svc, otherVars>>

\* ChatWorkspaceExists going on with a workspace that is not the caller's
ChatWorkspaceExistsUnchecked(r) ==
    LET q == req[r]
    IN  /\ q.route = "chat" /\ q.pc = "workspaceExists"
        /\ req' = [req EXCEPT ![r] =
              IF \E w \in Workspaces : w.id = q.workspaceId
              THEN [q EXCEPT !.pc = "userCheck", !.actualWorkspaceId = q.workspaceId]
              ELSE [q EXCEPT !.pc = "workspaceInsert"]]
        /\ UNCHANGED <<dbVars, devBypass, started, env, svc, otherVars>>

\* SELECT id, ownerId FROM Workspaces WHERE id = @workspaceId
ChatWorkspaceExists(r) ==
    LET q == req[r]
    IN  /\ q.route = "chat" /\ q.pc = "workspaceExists"
        /\ req' = [req EXCEPT ![r] =
              IF \E w \in Workspaces : w.id = q.workspaceId
              THEN Respond(q, 403, "Access denied")
              ELSE [q EXCEPT !.pc = "workspaceInsert"]]
        /\ UNCHANGED <<dbVars, devBypass, started, env, svc, otherVars>>

ChatWorkspaceInsert(r) ==
    LET q == req[r]
        id == Uuid(nextUuid + 1)
        v == InsertWorkspaceViolation(q.userId)
    IN  /\ q.route = "chat" /\ q.pc = "workspaceInsert"
        /\ nextUuid' = nextUuid + 1
        /\ IF v = "none"
           THEN /\ Workspaces' = Workspaces \cup {DefaultWorkspace(id, q.userId)}
                /\ req' = [req EXCEPT ![r] =
                             [q EXCEPT !.pc = "userCheck", !.actualWorkspaceId = id]]
           ELSE /\ req' = [req EXCEPT ![r] = Throw(q, ChatFailure, v)]
                /\ UNCHANGED Workspaces
        /\ UNCHANGED <<Users, Chats, Messages, devBypass, started, env, svc, otherVars>>

ChatInsert(r) ==
    LET q == req[r]
        v == InsertChatViolation(q.userId, q.actualWorkspaceId)
    IN  /\ q.route = "chat" /\ q.pc = "insertChat"
        /\ IF v = "none"
           THEN /\ Chats' = Chats \cup
                      {[id |-> q.actualChatId, userId |-> q.userId,
                        workspaceId |-> q.actualWorkspaceId, messageCount |-> 0,
                                  isArchived |-> FALSE]}
                /\ req' = [req EXCEPT ![r] = Respond(q, 201, "")]
           ELSE /\ req' = [req EXCEPT ![r] = Throw(q, ChatFailure, v)]
                /\ UNCHANGED Chats
        /\ UNCHANGED <<Users, Workspaces, Messages, nextUuid, devBypass, started, env, svc, otherVars>>

ChatStep(r) ==
    \/ ChatUserCheck(r)
    \/ ChatEmailCheck(r)
    \/ ChatUserInsert(r)
    \/ ChatUserUpdate(r)
    \/ ChatWorkspaceCheck(r)
    \/ ChatWorkspaceExists(r)
    \/ ChatWorkspaceInsert(r)
    \/ ChatInsert(r)

----------------------------------------------------------------------------
(* The response has been sent and the handler has returned: the           *)
(* connection serves the next request.                                     *)

EndRequest(r) ==
    /\ req[r].pc = "done"
    /\ req' = [req EXCEPT ![r] = IdleRequest]
    /\ UNCHANGED <<dbVars, devBypass, started, env, svc, otherVars>>

----------------------------------------------------------------------------
(* createUser of the services module: the account of a registered user.    *)
(* Registration is a request of its own, served while no other is.         *)

RegisterUser ==
    /\ \A r \in Slots : req[r].pc = "idle"
    /\ \E id \in UserIds, email \in Emails :
         /\ InsertUserViolation(id, email) = "none"
         /\ Users' = Users \cup {[id |-> id, email |-> email]}
    /\ UNCHANGED <<Workspaces, Chats, Messages, nextUuid, devBypass, req, started, env, svc, otherVars>>

----------------------------------------------------------------------------
(* POST /chat/:chatId/messages/:messageId/actions *)

ActionFailure == "Failed to process message action"

ActionTypes == {"like", "dislike", "bookmark", "star"}

ActionTypeInputs == {"like", "star", "share"}

ChatIdParams == {LocalUuid} \cup {c.id : c \in Chats}

MessageIdParams == {LocalUuid} \cup {Messages[i].id : i \in 1..Len(Messages)}

\* the rows of MessageActions with this (messageId, userId, actionType)
ActionsWith(messageId, userId, actionType) ==
    {a \in MessageActions :
       a.messageId = messageId /\ a.userId = userId /\ a.actionType = actionType}

\* the constraint, if any, that INSERT INTO MessageActions violates
InsertActionViolation(messageId, userId, actionType) ==
    IF ActionsWith(messageId, userId, actionType) # {} THEN "unique_action"
    ELSE IF ~(\E i \in 1..Len(Messages) : Messages[i].id = messageId) THEN "fk_actions_message"
    ELSE IF UsersWithId(userId) = {} THEN "fk_actions_user"
    ELSE "none"

ActStart(r, limit, callers) ==
    /\ FreeSlot(r)
    /\ started < limit
    /\ \E userId \in callers, actionType \in ActionTypeInputs :
         LET q == [IdleRequest EXCEPT !.route = "action", !.userId = userId,
                                      !.actionType = actionType, !.before = Snapshot]
         IN  req' = [req EXCEPT ![r] =
                       IF actionType \notin ActionTypes
                       THEN Respond(q, 400, "Invalid action type")
                       ELSE [q EXCEPT !.pc = "messageCheck"]]
    /\ started' = started + 1
    /\ UNCHANGED <<dbVars, devBypass, env, svc, otherVars>>

\* SELECT m.id FROM Messages m JOIN Chats c ON m.chatId = c.id WHERE m.id =
\* @messageId AND m.chatId = @chatId AND c.userId = @userId; the two path
\* parameters are first read here, so the model draws them here
ActMessageCheck(r) ==
    /\ req[r].route = "action" /\ req[r].pc = "messageCheck"
    /\ \E chatId \in ChatIdParams, messageId \in MessageIdParams :
         LET q == [req[r] EXCEPT !.chatId = chatId, !.messageId = messageId]
             found == \E i \in 1..Len(Messages) :
                         /\ Messages[i].id = messageId
                         /\ Messages[i].chatId = chatId
                         /\ \E c \in Chats : c.id = chatId /\ c.userId = q.userId
         IN  req' = [req EXCEPT ![r] =
                       IF found THEN [q EXCEPT !.pc = "existingAction"]
                       ELSE Respond(q, 404, "Message not found")]
    /\ UNCHANGED <<dbVars, devBypass, started, env, svc, otherVars>>

ActExistingAction(r) ==
    LET q == req[r]
    IN  /\ q.route = "action" /\ q.pc = "existingAction"
        /\ req' = [req EXCEPT ![r].pc =
              IF ActionsWith(q.messageId, q.userId, q.actionType) # {}
              THEN "deleteAction" ELSE "insertAction"]
        /\ UNCHANGED <<dbVars, devBypass, started, env, svc, otherVars>>

\* ActDelete with a DELETE that leaves the action type out of its WHERE
ActDeleteEveryType(r) ==
    LET q == req[r]
    IN  /\ q.route = "action" /\ q.pc = "deleteAction"
        /\ MessageActions' = {a \in MessageActions :
                                ~(a.messageId = q.messageId /\ a.userId = q.userId)}
        /\ req' = [req EXCEPT ![r] = [Respond(q, 200, "") EXCEPT !.active = FALSE]]
        /\ UNCHANGED <<dbVars, devBypass, started, env, svc, ui, calc, WorkspaceUsers>>

ActDelete(r) ==
    LET q == req[r]
    IN  /\ q.route = "action" /\ q.pc = "deleteAction"
        /\ MessageActions' = MessageActions \ ActionsWith(q.messageId, q.userId, q.actionType)
        /\ req' = [req EXCEPT ![r] = [Respond(q, 200, "") EXCEPT !.active = FALSE]]
        /\ UNCHANGED <<dbVars, devBypass, started, env, svc, ui, calc, WorkspaceUsers>>

ActInsert(r) ==
    LET q == req[r]
        id == Uuid(nextUuid + 1)
        v == InsertActionViolation(q.messageId, q.userId, q.actionType)
    IN  /\ q.route = "action" /\ q.pc = "insertAction"
        /\ nextUuid' = nextUuid + 1
        /\ IF v = "none"
           THEN /\ MessageActions' = MessageActions \cup
                      {[id |-> id, messageId |-> q.messageId, userId |-> q.userId,
                        actionType |-> q.actionType]}
                /\ req' = [req EXCEPT ![r] = [Respond(q, 200, "") EXCEPT !.active = TRUE]]
           ELSE /\ req' = [req EXCEPT ![r] = Throw(q, ActionFailure, v)]
                /\ UNCHANGED MessageActions
        /\ UNCHANGED <<Users, Workspaces, Chats, Messages, devBypass, started, env, svc, ui, calc, WorkspaceUsers>>

ActStep(r) ==
    \/ ActMessageCheck(r)
    \/ ActExistingAction(r)
    \/ ActDelete(r)
    \/ ActInsert(r)

----------------------------------------------------------------------------
(* The workspace routes that change a workspace or its assignments (PUT    *)
(* and DELETE /workspaces/:id, POST /:id/assign-user, POST /:id/remove-user, *)
(* PUT /:id/user-access) and DELETE /chat/:chatId, as run for a caller who  *)
(* has passed authenticateToken and requireAdmin.  req[r].route names the   *)
(* route.  createTables does not create WorkspaceUsers: none of its         *)
(* constraints is modelled.                                                 *)

\* a request arrives: the route, its :id or :chatId and its body; the checks
\* a handler makes on its body before its first await are made here
WsStart(r, limit, callers) ==
    /\ FreeSlot(r)
    /\ started < limit
    /\ \E userId \in callers,
          route \in {"update", "delete", "assign", "remove", "access", "archive"},
          id \in {LocalUuid} \cup {w.id : w \in Workspaces},
          chatId \in ChatIdParams,
          name \in {NULL, "Renamed"},
          userIds \in {FilesAbsent, FilesObject, FilesEmpty,
                       [FilesEmpty EXCEPT !.items = <<"u2">>],
                       [FilesEmpty EXCEPT !.items = <<"u2", "u1">>],
                       [FilesEmpty EXCEPT !.items = <<"u2", "u2">>]},
          member \in {NULL, "u2"},
          accessLevel \in {NULL, "readonly", "owner"} :
         LET q == [IdleRequest EXCEPT !.route = route, !.userId = userId,
                      !.workspaceId = IF route = "archive" THEN NULL ELSE id,
                      !.chatId = IF route = "archive" THEN chatId ELSE NULL,
                      !.name = name, !.userIds = userIds, !.member = member,
                      !.accessLevel = accessLevel, !.before = Snapshot]
         IN  \* each route reads its own fields of the body only
             /\ route = "archive" => id = LocalUuid
             /\ route # "archive" => chatId = LocalUuid
             /\ route # "update" => name = NULL
             /\ route \notin {"assign", "remove"} => userIds = FilesAbsent
             /\ route # "access" => member = NULL
             /\ route \notin {"assign", "access"} => accessLevel = NULL
             /\ route = "assign" => accessLevel # "owner"
             /\ req' = [req EXCEPT ![r] =
                   IF route \in {"assign", "remove"}
                      /\ (~userIds.present \/ ~userIds.isArray \/ Len(userIds.items) = 0)
                   THEN Respond(q, 400, "User IDs are required")
                   ELSE IF route = "access" /\ (member = NULL \/ accessLevel = NULL)
                   THEN Respond(q, 400, "User ID and access level are required")
                   ELSE IF route = "access" /\ accessLevel \notin {"member", "readonly"}
                   THEN Respond(q, 400, "Invalid access level")
                   ELSE IF route = "archive" THEN [q EXCEPT !.pc = "archiveCheck"]
                   ELSE IF route = "assign" /\ accessLevel = NULL
                   THEN [q EXCEPT !.pc = "workspaceCheck", !.accessLevel = "member"]
                   ELSE [q EXCEPT !.pc = "workspaceCheck"]]
    /\ started' = started + 1
    /\ UNCHANGED <<dbVars, devBypass, env, svc, otherVars>>

\* WsWorkspaceCheck with SELECT id FROM Workspaces WHERE id = @id
WsWorkspaceCheckAnyOwner(r) ==
    LET q == req[r]
    IN  /\ q.pc = "workspaceCheck"
        /\ req' = [req EXCEPT ![r] =
              IF ~(\E w \in Workspaces : w.id = q.workspaceId)
              THEN Respond(q, 404, "Workspace not found")
              ELSE [q EXCEPT !.pc = q.route]]
        /\ UNCHANGED <<dbVars, devBypass, started, env, svc, otherVars>>

\* SELECT id FROM Workspaces WHERE id = @id AND ownerId = @userId, the same
\* in the five workspace routes
WsWorkspaceCheck(r) ==
    LET q == req[r]
    IN  /\ q.pc = "workspaceCheck"
        /\ req' = [req EXCEPT ![r] =
              IF ~(\E w \in Workspaces : w.id = q.workspaceId /\ w.ownerId = q.userId)
              THEN Respond(q, 404, "Workspace not found")
              ELSE [q EXCEPT !.pc = q.route]]
        /\ UNCHANGED <<dbVars, devBypass, started, env, svc, otherVars>>

\* UPDATE Workspaces SET name = COALESCE(@name, name), ... WHERE id = @id
WsUpdate(r) ==
    LET q == req[r]
    IN  /\ q.pc = "update"
        /\ Workspaces' = {IF w.id = q.workspaceId /\ q.name # NULL
                          THEN [w EXCEPT !.name = q.name] ELSE w : w \in Workspaces}
        /\ req' = [req EXCEPT ![r] = Respond(q, 200, "")]
        /\ UNCHANGED <<Users, Chats, Messages, nextUuid, devBypass, started, env, svc, otherVars>>

\* SELECT COUNT(*) FROM Chats WHERE workspaceId = @workspaceId AND
\* isArchived = 0, then DELETE FROM Workspaces WHERE id = @id, which the
\* FOREIGN KEY (workspaceId) of Chats refuses while a chat names the workspace
WsDelete(r) ==
    LET q == req[r]
    IN  \/ /\ q.pc = "delete"
           /\ req' = [req EXCEPT ![r] =
                 IF \E c \in Chats : c.workspaceId = q.workspaceId /\ ~c.isArchived
                 THEN Respond(q, 400, "Cannot delete workspace")
                 ELSE [q EXCEPT !.pc = "deleteWorkspace"]]
           /\ UNCHANGED <<dbVars, devBypass, started, env, svc, otherVars>>
        \/ /\ q.pc = "deleteWorkspace"
           /\ IF \E c \in Chats : c.workspaceId = q.workspaceId
              THEN /\ req' = [req EXCEPT ![r] =
                         Throw(q, "Failed to delete workspace", "fk_chats_workspace")]
                   /\ UNCHANGED Workspaces
              ELSE /\ Workspaces' = {w \in Workspaces : w.id # q.workspaceId}
                   /\ req' = [req EXCEPT ![r] = Respond(q, 200, "")]
           /\ UNCHANGED <<Users, Chats, Messages, nextUuid, devBypass, started, env, svc,
                          otherVars>>

\* the loop of assign-user: for the userId at q.at, SELECT id FROM
\* WorkspaceUsers WHERE workspaceId = @workspaceId AND userId = @userId and,
\* when there is none, INSERT INTO WorkspaceUsers
WsAssignUser(r) ==
    LET q == req[r]
        userId == q.userIds.items[q.at]
        after == IF q.at = Len(q.userIds.items) THEN Respond(q, 200, "")
                 ELSE [q EXCEPT !.pc = "assign", !.at = @ + 1]
    IN  \/ /\ q.pc = "assign"
           /\ req' = [req EXCEPT ![r] =
                 IF \E a \in WorkspaceUsers :
                       a.workspaceId = q.workspaceId /\ a.userId = userId
                 THEN after
                 ELSE [q EXCEPT !.pc = "insertAssignment"]]
           /\ UNCHANGED <<dbVars, devBypass, started, env, svc, otherVars>>
        \/ /\ q.pc = "insertAssignment"
           /\ nextUuid' = nextUuid + 1
           /\ WorkspaceUsers' = WorkspaceUsers \cup
                 {[id |-> Uuid(nextUuid + 1), workspaceId |-> q.workspaceId,
                   userId |-> userId, accessLevel |-> q.accessLevel]}
           /\ req' = [req EXCEPT ![r] = after]
           /\ UNCHANGED <<Users, Workspaces, Chats, Messages, devBypass, started, env, svc,
                          MessageActions, ui, calc>>

\* the loop of remove-user: DELETE FROM WorkspaceUsers WHERE workspaceId =
\* @workspaceId AND userId = @userId for the userId at q.at
WsRemoveUser(r) ==
    LET q == req[r]
    IN  /\ q.pc = "remove"
        /\ WorkspaceUsers' = {a \in WorkspaceUsers :
                                ~(a.workspaceId = q.workspaceId
                                  /\ a.userId = q.userIds.items[q.at])}
        /\ req' = [req EXCEPT ![r] =
              IF q.at = Len(q.userIds.items) THEN Respond(q, 200, "")
              ELSE [q EXCEPT !.at = @ + 1]]
        /\ UNCHANGED <<dbVars, devBypass, started, env, svc, MessageActions, ui, calc>>

\* UPDATE WorkspaceUsers SET accessLevel = @accessLevel WHERE workspaceId =
\* @workspaceId AND userId = @userId; 404 when no row was affected
WsUserAccess(r) ==
    LET q == req[r]
        Assigned(a) == a.workspaceId = q.workspaceId /\ a.userId = q.member
    IN  /\ q.pc = "access"
        /\ WorkspaceUsers' = {IF Assigned(a) THEN [a EXCEPT !.accessLevel = q.accessLevel]
                              ELSE a : a \in WorkspaceUsers}
        /\ req' = [req EXCEPT ![r] =
              IF \E a \in WorkspaceUsers : Assigned(a) THEN Respond(q, 200, "")
              ELSE Respond(q, 404, "User assignment not found")]
        /\ UNCHANGED <<dbVars, devBypass, started, env, svc, MessageActions, ui, calc>>

\* DELETE /chat/:chatId: SELECT id FROM Chats WHERE id = @chatId AND userId =
\* @userId, then UPDATE Chats SET isArchived = 1 WHERE id = @chatId
ArchiveChat(r) ==
    LET q == req[r]
    IN  \/ /\ q.pc = "archiveCheck"
           /\ req' = [req EXCEPT ![r] =
                 IF \E c \in Chats : c.id = q.chatId /\ c.userId = q.userId
                 THEN [q EXCEPT !.pc = "archive"]
                 ELSE Respond(q, 404, "Chat not found")]
           /\ UNCHANGED <<dbVars, devBypass, started, env, svc, otherVars>>
        \/ /\ q.pc = "archive"
           /\ Chats' = {IF c.id = q.chatId THEN [c EXCEPT !.isArchived = TRUE] ELSE c :
                          c \in Chats}
           /\ req' = [req EXCEPT ![r] = Respond(q, 200, "")]
           /\ UNCHANGED <<Users, Workspaces, Messages, nextUuid, devBypass, started, env,
                          svc, otherVars>>

----------------------------------------------------------------------------
(* The Dashboard component: file selection, sendMessage and                *)
(* loadChatFromHistory over the state messages / pendingFiles.  Every      *)
(* await of a handler ends an action; the server side of a sendMessage     *)
(* request is POST /chat/message reduced to its inserts into Messages and  *)
(* its response.  The field `by` of an entry of messages is not part of   *)
(* the component: it records the handler that added the entry.            *)

CallSlots == {1, 2}

DashChatId == "dash-chat"

DashUserId == "u1"

IdleCall ==
    [pc |-> "idle", tempId |-> NULL, tempAiId |-> NULL, files |-> <<>>, up |-> <<>>,
     userMessageId |-> NULL, aiMessageId |-> NULL, outcome |-> "none", errorId |-> NULL]

InitialDashboard ==
    [messages |-> <<>>, pendingFiles |-> <<>>, now |-> 0, selected |-> 0, sends |-> 0,
     uploaded |-> <<>>, call |-> [c \in CallSlots |-> IdleCall], chatHistory |-> FALSE,
     load |-> [pc |-> "idle", rows |-> <<>>]]

\* Date.now(): the clock has stayed in the same millisecond or moved on
DateNow(t) == {t, t + 1}

\* prev.filter(msg => the id of msg is none of ids)
WithoutIds(messages, ids) == SelectSeq(messages, LAMBDA m : m.id \notin ids)

PendingIds(files) == {files[i].id : i \in 1..Len(files)}

\* input.onchange of handleFileAttachment
SelectFile ==
    /\ ui.selected < MaxFiles
    /\ \E t \in DateNow(ui.now) :
         LET id == "pending-" \o ToString(t)
             file == "file" \o ToString(ui.selected + 1)
         IN  ui' = [ui EXCEPT
                      !.now = t,
                      !.selected = @ + 1,
                      !.pendingFiles = Append(@, [id |-> id, file |-> file]),
                      !.messages = Append(@, [id |-> id, isUser |-> TRUE, isError |-> FALSE,
                                               by |-> "select"])]
    /\ UNCHANGED <<dbVars, devBypass, req, started, env, svc, MessageActions, calc, WorkspaceUsers>>

\* sendMessage up to its first await: the two temporary messages, and the
\* uploads of the pending files (or the POST when there are none)
SendStart(c) ==
    /\ ui.call[c].pc = "idle"
    /\ \A o \in CallSlots : o < c => ui.call[o].pc # "idle"
    /\ ui.sends < MaxSends
    /\ \E messageText \in MessageTexts, t1 \in DateNow(ui.now) :
         \E t2 \in DateNow(t1) :
            /\ ~(MessageBlank(messageText) /\ ui.pendingFiles = <<>>)
            /\ LET tempId == "temp-" \o ToString(t1)
                   tempAiId == "temp-ai-" \o ToString(t2)
                   files == ui.pendingFiles
               IN  ui' = [ui EXCEPT
                            !.now = t2,
                            !.sends = @ + 1,
                            !.messages = @ \o <<[id |-> tempId, isUser |-> TRUE, isError |-> FALSE,
                                                 by |-> ToString(c)],
                                                [id |-> tempAiId, isUser |-> FALSE, isError |-> FALSE,
                                                 by |-> ToString(c)]>>,
                            !.call[c] = [IdleCall EXCEPT
                                           !.pc = IF files # <<>> THEN "uploading" ELSE "posting",
                                           !.tempId = tempId, !.tempAiId = tempAiId,
                                           !.files = files,
                                           !.up = [i \in 1..Len(files) |-> "inflight"]]]
    /\ UNCHANGED <<dbVars, devBypass, req, started, env, svc, MessageActions, calc, WorkspaceUsers>>

\* one fileAPI.uploadFile of the call ends: the file is stored, or the
\* request fails; the other uploads of Promise.all go on either way
UploadSettle(c) ==
    /\ \E i \in 1..Len(ui.call[c].up), ok \in BOOLEAN :
         /\ ui.call[c].up[i] = "inflight"
         /\ ui' = [ui EXCEPT
                     !.call[c].up[i] = IF ok THEN "ok" ELSE "failed",
                     !.uploaded = IF ok THEN Append(@, ui.call[c].files[i].file) ELSE @]
    /\ UNCHANGED <<dbVars, devBypass, req, started, env, svc, MessageActions, calc, WorkspaceUsers>>

\* Promise.all has resolved: pendingFiles cleared, the file messages
\* removed, the message posted
SendUploadsDone(c) ==
    LET k == ui.call[c]
    IN  /\ k.pc = "uploading"
        /\ \A i \in 1..Len(k.up) : k.up[i] = "ok"
        /\ ui' = [ui EXCEPT
                    !.pendingFiles = <<>>,
                    !.messages = WithoutIds(@, PendingIds(k.files)),
                    !.call[c].pc = "posting"]
        /\ UNCHANGED <<dbVars, devBypass, req, started, env, svc, MessageActions, calc, WorkspaceUsers>>

\* the catch block of sendMessage: the temporary messages removed, one
\* error message added; the call has settled
CatchSendError(c, t) ==
    LET k == ui.call[c]
        errorId == "error-" \o ToString(t)
    IN  [ui EXCEPT
           !.now = t,
           !.messages = Append(WithoutIds(@, {k.tempId, k.tempAiId}),
                               [id |-> errorId, isUser |-> FALSE, isError |-> TRUE,
                                by |-> ToString(c)]),
           !.call[c].pc = "settled",
           !.call[c].outcome = "failure",
           !.call[c].errorId = errorId]

\* Promise.all has rejected with the first upload that failed
SendUploadsFailed(c) ==
    LET k == ui.call[c]
    IN  /\ k.pc = "uploading"
        /\ \E i \in 1..Len(k.up) : k.up[i] = "failed"
        /\ \E t \in DateNow(ui.now) : ui' = CatchSendError(c, t)
        /\ UNCHANGED <<dbVars, devBypass, req, started, env, svc, MessageActions, calc, WorkspaceUsers>>

\* POST /chat/message answers with an error before it has stored anything
ServerReject(c) ==
    /\ ui.call[c].pc = "posting"
    /\ ui' = [ui EXCEPT !.call[c].pc = "rejected"]
    /\ UNCHANGED <<dbVars, devBypass, req, started, env, svc, MessageActions, calc, WorkspaceUsers>>

\* POST /chat/message stores the user message
ServerStoreUserMessage(c) ==
    LET id == Uuid(nextUuid + 1)
    IN  /\ ui.call[c].pc = "posting"
        /\ nextUuid' = nextUuid + 1
        /\ Messages' = Append(Messages,
              [id |-> id, chatId |-> DashChatId, userId |-> DashUserId, role |-> "user",
               content |-> <<"h", "i">>])
        /\ ui' = [ui EXCEPT !.call[c].pc = "completion", !.call[c].userMessageId = id]
        /\ UNCHANGED <<Users, Workspaces, Chats, devBypass, req, started, env, svc,
                       MessageActions, calc, WorkspaceUsers>>

\* POST /chat/message stores the assistant message (the placeholder when
\* the completion failed) and answers 200 (500 when the completion failed)
ServerStoreAssistantMessage(c) ==
    LET id == Uuid(nextUuid + 1)
    IN  /\ ui.call[c].pc = "completion"
        /\ nextUuid' = nextUuid + 1
        /\ \E failed \in BOOLEAN :
             /\ Messages' = Append(Messages,
                   [id |-> id, chatId |-> DashChatId, userId |-> DashUserId,
                    role |-> "assistant",
                    content |-> IF failed THEN <<PlaceholderText>> ELSE <<AiText>>])
             /\ ui' = [ui EXCEPT !.call[c].pc = IF failed THEN "rejected" ELSE "answered",
                                 !.call[c].aiMessageId = id]
        /\ UNCHANGED <<Users, Workspaces, Chats, devBypass, req, started, env, svc,
                       MessageActions, calc, WorkspaceUsers>>

\* the response has arrived: the temporary messages are replaced by the
\* messages of the response; loadChatHistory is awaited next
SendResolve(c) ==
    LET k == ui.call[c]
    IN  /\ k.pc = "answered"
        /\ ui' = [ui EXCEPT
                    !.messages = WithoutIds(@, {k.tempId, k.tempAiId}) \o
                                 <<[id |-> k.userMessageId, isUser |-> TRUE, isError |-> FALSE,
                                    by |-> ToString(c)],
                                   [id |-> k.aiMessageId, isUser |-> FALSE, isError |-> FALSE,
                                    by |-> ToString(c)]>>,
                    !.call[c].pc = "refresh"]
        /\ UNCHANGED <<dbVars, devBypass, req, started, env, svc, MessageActions, calc, WorkspaceUsers>>

\* loadChatHistory has ended (it swallows its errors): the call has settled
SendRefresh(c) ==
    /\ ui.call[c].pc = "refresh"
    /\ ui' = [ui EXCEPT !.chatHistory = TRUE,
                        !.call[c].pc = "settled", !.call[c].outcome = "success"]
    /\ UNCHANGED <<dbVars, devBypass, req, started, env, svc, MessageActions, calc, WorkspaceUsers>>

\* chatAPI.sendMessage has thrown
SendCatch(c) ==
    /\ ui.call[c].pc = "rejected"
    /\ \E t \in DateNow(ui.now) : ui' = CatchSendError(c, t)
    /\ UNCHANGED <<dbVars, devBypass, req, started, env, svc, MessageActions, calc, WorkspaceUsers>>

\* GET /history/:chatId: the messages of the chat as stored
ChatDetails(chatId) ==
    LET rows == SelectSeq(Messages, LAMBDA m : m.chatId = chatId)
    IN  [i \in 1..Len(rows) |-> [id |-> rows[i].id, role |-> rows[i].role]]

\* loadChatFromHistory for the chat of the conversation, which the side bar
\* lists once the chat history has been loaded with it
LoadFetch ==
    /\ ui.chatHistory
    /\ ui.load.pc = "idle"
    /\ ui' = [ui EXCEPT !.load = [pc |-> "fetched", rows |-> ChatDetails(DashChatId)]]
    /\ UNCHANGED <<dbVars, devBypass, req, started, env, svc, MessageActions, calc, WorkspaceUsers>>

LoadApply ==
    /\ ui.load.pc = "fetched"
    /\ ui' = [ui EXCEPT
                !.messages = [i \in 1..Len(ui.load.rows) |->
                                [id |-> ui.load.rows[i].id,
                                 isUser |-> ui.load.rows[i].role = "user",
                                 isError |-> FALSE, by |-> "load"]],
                !.load = [pc |-> "idle", rows |-> <<>>]]
    /\ UNCHANGED <<dbVars, devBypass, req, started, env, svc, MessageActions, calc, WorkspaceUsers>>

SendStep(c) ==
    \/ SendStart(c)
    \/ UploadSettle(c)
    \/ SendUploadsDone(c)
    \/ SendUploadsFailed(c)
    \/ ServerReject(c)
    \/ ServerStoreUserMessage(c)
    \/ ServerStoreAssistantMessage(c)
    \/ SendResolve(c)
    \/ SendRefresh(c)
    \/ SendCatch(c)

\* handleMessageAction up to its await: temporary and error messages, unknown
\* and user messages are skipped; isCurrentlyActive is read from the
\* messageActions of this render (an entry that is missing counts as all false)
HandleMessageAction(c) ==
    /\ ui.call[c].pc = "idle"
    /\ ui.clicks < MaxClicks
    /\ \E i \in 1..Len(ui.messages), action \in {"liked", "disliked", "starred", "bookmarked"} :
         LET m == ui.messages[i]
         IN  ui' = IF m.isLocal \/ m.isUser
                   THEN [ui EXCEPT !.clicks = @ + 1]
                   ELSE [ui EXCEPT !.clicks = @ + 1,
                            !.call[c] = [pc |-> "request", messageId |-> m.id,
                                         action |-> action,
                                         isCurrentlyActive |-> ui.messageActions[m.id][action]]]
    /\ UNCHANGED <<dbVars, devBypass, req, started, env, svc, MessageActions, calc, WorkspaceUsers>>

\* the request of handleMessageAction has been answered: the lists and
\* messageActions are updated, or the catch block shows its alert
MessageActionSettle(c) ==
    LET k == ui.call[c]
        idle == [pc |-> "idle", messageId |-> NULL, action |-> "none",
                 isCurrentlyActive |-> FALSE]
        Without(list) == SelectSeq(list, LAMBDA id : id # k.messageId)
        prev == ui.messageActions[k.messageId]
    IN  /\ k.pc = "request"
        /\ \E ok \in BOOLEAN :
             ui' = IF ~ok THEN [ui EXCEPT !.call[c] = idle]
                   ELSE [ui EXCEPT
                           !.call[c] = idle,
                           !.bookmarkedMessages =
                               IF k.action # "bookmarked" THEN @
                               ELSE IF k.isCurrentlyActive THEN Without(@)
                               ELSE <<k.messageId>> \o @,
                           !.likedMessages =
                               IF k.action # "liked" THEN @
                               ELSE IF k.isCurrentlyActive THEN Without(@)
                               ELSE <<k.messageId>> \o @,
                           !.dislikedMessages =
                               IF k.action # "disliked" THEN @
                               ELSE IF k.isCurrentlyActive THEN Without(@)
                               ELSE <<k.messageId>> \o @,
                           !.messageActions[k.messageId] =
                               [f \in DOMAIN prev |->
                                  IF f = "disliked" /\ k.action = "liked" /\ prev.disliked
                                  THEN FALSE
                                  ELSE IF f = "liked" /\ k.action = "disliked" /\ prev.liked
                                  THEN FALSE
                                  ELSE IF f = k.action THEN ~k.isCurrentlyActive
                                  ELSE prev[f]]]
        /\ UNCHANGED <<dbVars, devBypass, req, started, env, svc, MessageActions, calc, WorkspaceUsers>>

----------------------------------------------------------------------------
(* FileAnalysisService.  A call is calc = [fn, pc, arguments, what the     *)
(* storage or the model answers, result]; texts are sequences of           *)
(* characters.                                                             *)

NoCall == [fn |-> "none", pc |-> "none"]

\* extractFileContent(fileName, originalName) asks for 2000 tokens
ExtractMaxTokens == 2000

\* rough approximation: 1 token is 4 characters
CharsPerToken == 4

\* a stored text of n characters, its characters telling their position
StoredText(n) == [i \in 1..n |-> ToString(i % 10)]

\* truncateContentForTokens with the cut one character short
TruncateOneShort(content, maxTokens) ==
    LET maxChars == maxTokens * CharsPerToken
    IN  IF Len(content) <= maxChars THEN content ELSE SubSeq(content, 1, maxChars - 1)

TruncateContentForTokens(content, maxTokens) ==
    LET maxChars == maxTokens * CharsPerToken
    IN  IF Len(content) <= maxChars THEN content ELSE SubSeq(content, 1, maxChars)

OriginalNames == {"a.txt", "report.pdf"}

ContentLengths ==
    (0..MaxOver)
    \cup ((ExtractMaxTokens * CharsPerToken - MaxOver)..(ExtractMaxTokens * CharsPerToken + MaxOver))

\* extractFileContent up to storageService.getFileContent
ExtractStart ==
    /\ calc.fn = "extractFileContent" /\ calc.pc = "start"
    /\ calc' = [calc EXCEPT !.pc = "reading"]
    /\ UNCHANGED <<dbVars, devBypass, req, started, env, svc, MessageActions, ui, WorkspaceUsers>>

\* getFileContent has returned the stored text or has thrown
ExtractFinish ==
    /\ calc.fn = "extractFileContent" /\ calc.pc = "reading"
    /\ calc' = [calc EXCEPT
                  !.pc = "returned",
                  !.result =
                     IF calc.storageFails
                     THEN [fileName |-> calc.fileName, originalName |-> calc.originalName,
                           content |-> <<"[Content not available for file: ",
                                         calc.originalName, "]">>,
                           size |-> 0]
                     ELSE [fileName |-> calc.fileName, originalName |-> calc.originalName,
                           content |-> TruncateContentForTokens(calc.fileContent, ExtractMaxTokens),
                           size |-> Len(calc.fileContent)]]
    /\ UNCHANGED <<dbVars, devBypass, req, started, env, svc, MessageActions, ui, WorkspaceUsers>>

\* analyzeFile asks for 10000 tokens
AnalyzeMaxTokens == 10000

\* extractAnalysisFromText keeps the first 200 characters
SummaryChars == 200

\* JavaScript values: a type and, for a string, its characters, for an
\* array, its elements, for an object, its members in source order
JsString(chars) == [type |-> "string", value |-> chars]

JsUndefined == [type |-> "undefined", value |-> <<>>]

SyntaxError == [type |-> "SyntaxError", value |-> <<>>]

\* JSON.parse of a text without white space, escapes or nested objects:
\* literals, numbers, strings, arrays of these, objects of all of these;
\* SyntaxError for every other text
JsonParse(text) ==
    LET \* the pieces of s between the commas outside strings and brackets
        SplitTop(s) ==
            LET inString(i) == Cardinality({j \in 1..(i - 1) : s[j] = "\""}) % 2 = 1
                depth(i) ==
                    Cardinality({j \in 1..(i - 1) : s[j] \in {"[", "{"} /\ ~inString(j)})
                    - Cardinality({j \in 1..(i - 1) : s[j] \in {"]", "}"} /\ ~inString(j)})
                Pieces(commas) ==
                    LET cut(n) == IF n = 0 THEN 0
                                  ELSE IF n > Cardinality(commas) THEN Len(s) + 1
                                  ELSE CHOOSE c \in commas :
                                         Cardinality({d \in commas : d < c}) = n - 1
                    IN  [n \in 1..(Cardinality(commas) + 1) |->
                            SubSeq(s, cut(n - 1) + 1, cut(n) - 1)]
            IN  Pieces({i \in 1..Len(s) : s[i] = "," /\ ~inString(i) /\ depth(i) = 0})
        \* no member of a sequence of parsed values is a SyntaxError
        AllParsed(type, values) ==
            IF \E i \in 1..Len(values) : values[i] = SyntaxError THEN SyntaxError
            ELSE [type |-> type, value |-> values]
        ParseScalar(s) ==
            IF s = <<"n", "u", "l", "l">> THEN [type |-> "null", value |-> <<>>]
            ELSE IF s = <<"t", "r", "u", "e">> \/ s = <<"f", "a", "l", "s", "e">>
            THEN [type |-> "boolean", value |-> s]
            ELSE IF /\ s # <<>>
                    /\ \A i \in 1..Len(s) :
                         s[i] \in {"0", "1", "2", "3", "4", "5", "6", "7", "8", "9"}
                    /\ (Len(s) = 1 \/ s[1] # "0")
            THEN [type |-> "number", value |-> s]
            ELSE IF /\ Len(s) >= 2
                    /\ s[1] = "\"" /\ s[Len(s)] = "\""
                    /\ \A i \in 2..(Len(s) - 1) : s[i] \notin {"\"", "\\"}
            THEN JsString(SubSeq(s, 2, Len(s) - 1))
            ELSE SyntaxError
        ParseItems(pieces) == [i \in 1..Len(pieces) |-> ParseScalar(pieces[i])]
        ParseValue(s) ==
            IF ~(Len(s) >= 2 /\ s[1] = "[" /\ s[Len(s)] = "]") THEN ParseScalar(s)
            ELSE IF Len(s) = 2 THEN [type |-> "array", value |-> <<>>]
            ELSE AllParsed("array", ParseItems(SplitTop(SubSeq(s, 2, Len(s) - 1))))
        \* "key":value, the key ending at its closing quote j
        MemberAt(s, j) ==
            IF j + 1 >= Len(s) \/ s[j + 1] # ":" THEN SyntaxError
            ELSE IF \E i \in 2..(j - 1) : s[i] = "\\" THEN SyntaxError
            ELSE AllParsed("member",
                           <<JsString(SubSeq(s, 2, j - 1)), ParseValue(SubSeq(s, j + 2, Len(s)))>>)
        ParseMember(s) ==
            IF Len(s) < 4 \/ s[1] # "\"" \/ ~(\E j \in 2..Len(s) : s[j] = "\"") THEN SyntaxError
            ELSE MemberAt(s, CHOOSE j \in 2..Len(s) :
                                /\ s[j] = "\""
                                /\ \A o \in 2..(j - 1) : s[o] # "\"")
        ParseMembers(pieces) == [i \in 1..Len(pieces) |-> ParseMember(pieces[i])]
    IN  IF ~(Len(text) >= 2 /\ text[1] = "{" /\ text[Len(text)] = "}") THEN ParseValue(text)
        ELSE IF Len(text) = 2 THEN [type |-> "object", value |-> <<>>]
        ELSE AllParsed("object", ParseMembers(SplitTop(SubSeq(text, 2, Len(text) - 1))))

\* extractAnalysisFromText(text, tokens)
ExtractAnalysisFromText(text, tokens) ==
    [summary |-> JsString(SubSeq(text, 1, IF Len(text) < SummaryChars THEN Len(text)
                                          ELSE SummaryChars) \o <<".", ".", ".">>),
     keyPoints |->
        [type |-> "array",
         value |-> <<JsString(<<"A", "n", "a", "l", "y", "s", "i", "s", " ", "c",
                                      "o", "m", "p", "l", "e", "t", "e", "d", " ", "s",
                                      "u", "c", "c", "e", "s", "s", "f", "u", "l", "l",
                                      "y">>)>>],
     sentiment |-> JsString(<<"n", "e", "u", "t", "r", "a", "l">>),
     language |-> JsString(<<"E", "n", "g", "l", "i", "s", "h">>),
     tokensUsed |-> tokens]

\* the try/catch around JSON.parse in analyzeContentWithAI, followed by the
\* fields analyzeFile copies into its result: value.key of the object
\* spread {...value} is the last member with the key when value is an
\* object, undefined for every other value the model parses to
AnalysisOf(text, tokens) ==
    LET Field(analysis, key) ==
            IF analysis.type # "object" THEN JsUndefined
            ELSE IF ~(\E i \in 1..Len(analysis.value) : analysis.value[i].value[1].value = key)
            THEN JsUndefined
            ELSE analysis.value[CHOOSE i \in 1..Len(analysis.value) :
                                  /\ analysis.value[i].value[1].value = key
                                  /\ \A o \in (i + 1)..Len(analysis.value) :
                                       analysis.value[o].value[1].value # key].value[2]
        Copied(analysis) ==
            IF analysis = SyntaxError THEN ExtractAnalysisFromText(text, tokens)
            ELSE [summary |-> Field(analysis, <<"s", "u", "m", "m", "a", "r", "y">>),
                  keyPoints |-> Field(analysis, <<"k", "e", "y", "P", "o", "i", "n", "t", "s">>),
                  sentiment |-> Field(analysis, <<"s", "e", "n", "t", "i", "m", "e", "n", "t">>),
                  language |-> Field(analysis, <<"l", "a", "n", "g", "u", "a", "g", "e">>),
                  tokensUsed |-> tokens]
    IN  Copied(JsonParse(text))

\* answers of the model: the JSON asked for, JSON of another shape (a
\* member missing, a sentiment outside the three, a number as summary,
\* null, a number, a string, [], {}), JSON cut short or after a preamble,
\* and prose of 0, 5 and about SummaryChars characters
Answers ==
    {<<"{", "\"", "s", "u", "m", "m", "a", "r", "y", "\"", ":", "\"", "o", "k", "\"",
       ",", "\"", "k", "e", "y", "P", "o", "i", "n", "t", "s", "\"", ":", "[", "\"",
       "p", "1", "\"", ",", "\"", "p", "2", "\"", "]", ",", "\"", "s", "e", "n", "t",
       "i", "m", "e", "n", "t", "\"", ":", "\"", "p", "o", "s", "i", "t", "i", "v",
       "e", "\"", ",", "\"", "l", "a", "n", "g", "u", "a", "g", "e", "\"", ":", "\"",
       "E", "n", "g", "l", "i", "s", "h", "\"", "}">>,
     <<"{", "\"", "s", "u", "m", "m", "a", "r", "y", "\"", ":", "\"", "o", "k", "\"",
       ",", "\"", "s", "e", "n", "t", "i", "m", "e", "n", "t", "\"", ":", "\"", "p",
       "o", "s", "i", "t", "i", "v", "e", "\"", ",", "\"", "l", "a", "n", "g", "u",
       "a", "g", "e", "\"", ":", "\"", "E", "n", "g", "l", "i", "s", "h", "\"", "}">>,
     <<"{", "\"", "s", "u", "m", "m", "a", "r", "y", "\"", ":", "\"", "o", "k", "\"",
       ",", "\"", "k", "e", "y", "P", "o", "i", "n", "t", "s", "\"", ":", "[", "\"",
       "p", "1", "\"", "]", ",", "\"", "s", "e", "n", "t", "i", "m", "e", "n", "t",
       "\"", ":", "\"", "m", "i", "x", "e", "d", "\"", ",", "\"", "l", "a", "n", "g",
       "u", "a", "g", "e", "\"", ":", "\"", "E", "n", "g", "l", "i", "s", "h", "\"",
       "}">>,
     <<"{", "\"", "s", "u", "m", "m", "a", "r", "y", "\"", ":", "7", ",", "\"", "k",
       "e", "y", "P", "o", "i", "n", "t", "s", "\"", ":", "[", "\"", "p", "1", "\"",
       "]", ",", "\"", "s", "e", "n", "t", "i", "m", "e", "n", "t", "\"", ":", "\"",
       "n", "e", "u", "t", "r", "a", "l", "\"", ",", "\"", "l", "a", "n", "g", "u",
       "a", "g", "e", "\"", ":", "\"", "E", "n", "g", "l", "i", "s", "h", "\"", "}">>,
     <<"{", "\"", "s", "u", "m", "m", "a", "r", "y", "\"", ":", "\"", "o", "k", "\"",
       ",", "\"", "k", "e", "y", "P", "o", "i", "n", "t", "s", "\"", ":", "[", "\"",
       "p", "1", "\"">>,
     <<"S", "u", "r", "e", ":", "{", "\"", "s", "u", "m", "m", "a", "r", "y", "\"",
       ":", "\"", "o", "k", "\"", "}">>,
     <<"n", "u", "l", "l">>, <<"7">>, <<"\"", "o", "k", "\"">>, <<"[", "]">>, <<"{", "}">>}
    \cup {[i \in 1..n |-> IF i % 7 = 0 THEN " " ELSE "a"] :
            n \in {0, 5} \cup ((SummaryChars - 2)..(SummaryChars + 2))}

\* analyzeFile up to the read of the file from the storage
AnalyzeStart ==
    /\ calc.fn = "analyzeFile" /\ calc.pc = "start"
    /\ calc' = [calc EXCEPT !.pc = "reading"]
    /\ UNCHANGED <<dbVars, devBypass, req, started, env, svc, MessageActions, ui, WorkspaceUsers>>

\* the storage has answered: the content is truncated and the completion
\* requested, or the error is thrown again as 'Failed to analyze file'
AnalyzeRead ==
    /\ calc.fn = "analyzeFile" /\ calc.pc = "reading"
    /\ calc' = IF calc.storageFails
               THEN [calc EXCEPT !.pc = "returned", !.threw = TRUE]
               ELSE [calc EXCEPT !.pc = "completion",
                        !.prompt = TruncateContentForTokens(calc.fileContent, AnalyzeMaxTokens)]
    /\ UNCHANGED <<dbVars, devBypass, req, started, env, svc, MessageActions, ui, WorkspaceUsers>>

\* getChatCompletion has answered or thrown
AnalyzeFinish ==
    /\ calc.fn = "analyzeFile" /\ calc.pc = "completion"
    /\ calc' = IF calc.llmFails
               THEN [calc EXCEPT !.pc = "returned", !.threw = TRUE]
               ELSE [calc EXCEPT !.pc = "returned",
                        !.result = AnalysisOf(calc.answer, calc.tokens)]
    /\ UNCHANGED <<dbVars, devBypass, req, started, env, svc, MessageActions, ui, WorkspaceUsers>>

----------------------------------------------------------------------------
(* Start-up: initializeAzureServices().  env is process.env as the         *)
(* initialisers read it, together with whether the SDK calls they make     *)
(* succeed; svc holds the four exported clients and the position in        *)
(* initializeAzureServices.                                                 *)

EnvFlags ==
    {"sqlConfig", "sqlReachable", "mockDatabase",
     "storageAccountName", "storageConnectionString", "storageAccountKey", "blobSdkOk",
     "appConfigConnectionString", "mockAppConfig", "appConfigSdkOk",
     "openAIEndpoint", "openAIApiKey"}

Envs == [EnvFlags -> BOOLEAN]

\* export let sqlPool, blobServiceClient, appConfigClient, openAIClient
UnstartedServices ==
    [pc |-> "sql", sqlPool |-> "undefined", blobServiceClient |-> "undefined",
     appConfigClient |-> "undefined", openAIClient |-> "undefined",
     outcome |-> "pending", caught |-> "none"]

\* the catch of initializeAzureServices: the error is logged and not thrown
\* again, so the promise of initializeAzureServices resolves
CatchInitError(s, error) ==
    [s EXCEPT !.pc = "returned", !.outcome = "resolved", !.caught = error]

\* MOCK_DATABASE is not read
InitializeSQLDatabase ==
    /\ svc.pc = "sql"
    /\ svc' = IF ~env["sqlConfig"]
              THEN CatchInitError(svc, "Missing required SQL database configuration in environment variables")
              ELSE IF ~env["sqlReachable"]
              THEN CatchInitError([svc EXCEPT !.sqlPool = "unconnected"], "sql connection failed")
              ELSE [svc EXCEPT !.sqlPool = "real", !.pc = "blob"]
    /\ UNCHANGED <<dbVars, devBypass, req, started, env, otherVars>>

InitializeBlobStorage ==
    /\ svc.pc = "blob"
    /\ svc' = [svc EXCEPT
                 !.pc = "appConfig",
                 !.blobServiceClient =
                    IF ~env["storageAccountName"] THEN "mock"
                    ELSE IF env["storageConnectionString"] \/ env["storageAccountKey"]
                         THEN IF env["blobSdkOk"] THEN "real" ELSE "mock"
                         ELSE "mock"]
    /\ UNCHANGED <<dbVars, devBypass, req, started, env, otherVars>>

InitializeAppConfiguration ==
    /\ svc.pc = "appConfig"
    /\ svc' = [svc EXCEPT
                 !.pc = "openAI",
                 !.appConfigClient =
                    IF env["mockAppConfig"] \/ ~env["appConfigConnectionString"] THEN "mock"
                    ELSE IF env["appConfigSdkOk"] THEN "real" ELSE "mock"]
    /\ UNCHANGED <<dbVars, devBypass, req, started, env, otherVars>>

InitializeOpenAI ==
    /\ svc.pc = "openAI"
    /\ svc' = IF ~env["openAIEndpoint"] \/ ~env["openAIApiKey"]
              THEN CatchInitError(svc, "Azure OpenAI configuration missing in environment variables")
              ELSE [svc EXCEPT !.openAIClient = "real", !.pc = "returned",
                               !.outcome = "resolved"]
    /\ UNCHANGED <<dbVars, devBypass, req, started, env, otherVars>>

\* the environment of a server whose start-up found every service
ServerEnv == [f \in EnvFlags |-> f \notin {"mockDatabase", "mockAppConfig"}]

RunningServices ==
    [UnstartedServices EXCEPT !.pc = "returned", !.sqlPool = "real",
        !.blobServiceClient = "real", !.appConfigClient = "real",
        !.openAIClient = "real", !.outcome = "resolved"]

----------------------------------------------------------------------------

Init ==
    /\ Users = {}
    /\ Workspaces = {}
    /\ Chats = {}
    /\ Messages = <<>>
    /\ nextUuid = 0
    /\ devBypass \in BOOLEAN
    /\ req = [r \in Slots |-> IdleRequest]
    /\ started = 0
    /\ env = ServerEnv
    /\ svc = RunningServices
    /\ MessageActions = {}
    /\ ui = <<>>
    /\ calc = NoCall
    /\ WorkspaceUsers = {}

Next ==
    \/ RegisterUser
    \/ MsgStart(1, MaxRequests, UserIds, MessageTexts, FileInputs)
    \/ MsgStep(1)
    \/ EndRequest(1)

Spec == Init /\ [][Next]_vars

\* both chat routes, requests served one at a time
NextRoutes ==
    \/ RegisterUser
    \/ MsgStart(1, MaxRequests, UserIds, MessageTexts, FileInputs)
    \/ MsgStep(1)
    \/ ChatStart(1, MaxRequests, UserIds)
    \/ ChatStep(1)
    \/ EndRequest(1)

SpecRoutes == Init /\ [][NextRoutes]_vars

\* both chat routes, with queries of POST /chat/message that may fail
NextFaults ==
    \/ RegisterUser
    \/ MsgStart(1, MaxRequests, UserIds, MessageTexts, FileInputs)
    \/ MsgStep(1)
    \/ MsgDbError(1)
    \/ ChatStart(1, MaxRequests, UserIds)
    \/ ChatStep(1)
    \/ EndRequest(1)

SpecFaults == Init /\ [][NextFaults]_vars

\* both chat routes, the round trips of the requests interleaved; the
\* requests come from one caller and carry a plain text message without files
ConcCallers == {"u1"}

ConcTexts == {<<" ", "h", "i">>}

ConcFiles == {FilesAbsent}

NextConc ==
    \/ RegisterUser
    \/ \E r \in Slots :
         \/ MsgStart(r, MaxConcRequests, ConcCallers, ConcTexts, ConcFiles)
         \/ MsgStep(r)
         \/ ChatStart(r, MaxConcRequests, ConcCallers)
         \/ ChatStep(r)

SpecConc == Init /\ [][NextConc]_vars

\* start-up alone, from every environment
InitAzure ==
    /\ Users = {}
    /\ Workspaces = {}
    /\ Chats = {}
    /\ Messages = <<>>
    /\ nextUuid = 0
    /\ devBypass = FALSE
    /\ req = [r \in Slots |-> IdleRequest]
    /\ started = 0
    /\ env \in Envs
    /\ svc = UnstartedServices
    /\ MessageActions = {}
    /\ ui = <<>>
    /\ calc = NoCall
    /\ WorkspaceUsers = {}

NextAzure ==
    \/ InitializeSQLDatabase
    \/ InitializeBlobStorage
    \/ InitializeAppConfiguration
    \/ InitializeOpenAI

SpecAzure == InitAzure /\ [][NextAzure]_vars

\* the message-action route over a database in which each user has sent one
\* message: the rows that a first POST /chat/message of each user leaves
\* (workspace, chat, user message, assistant message, in uuid order)
SeededUsers == {[id |-> u, email |-> DerivedEmail(u)] : u \in UserIds}

SeededWorkspaces ==
    {DefaultWorkspace(Uuid(1), "u1"), DefaultWorkspace(Uuid(5), "u2"),
     [id |-> Uuid(9), name |-> "Projects", ownerId |-> "u1"]}

SeededChats ==
    {[id |-> Uuid(2), userId |-> "u1", workspaceId |-> Uuid(1), messageCount |-> 2,
      isArchived |-> FALSE],
     [id |-> Uuid(6), userId |-> "u2", workspaceId |-> Uuid(5), messageCount |-> 2,
      isArchived |-> FALSE]}

SeededMessages ==
    <<[id |-> Uuid(3), chatId |-> Uuid(2), userId |-> "u1", role |-> "user",
       content |-> <<"h", "i">>],
      [id |-> Uuid(4), chatId |-> Uuid(2), userId |-> "u1", role |-> "assistant",
       content |-> <<AiText>>],
      [id |-> Uuid(7), chatId |-> Uuid(6), userId |-> "u2", role |-> "user",
       content |-> <<"h", "i">>],
      [id |-> Uuid(8), chatId |-> Uuid(6), userId |-> "u2", role |-> "assistant",
       content |-> <<AiText>>]>>

InitActions ==
    /\ Users = SeededUsers
    /\ Workspaces = SeededWorkspaces
    /\ Chats = SeededChats
    /\ Messages = SeededMessages
    /\ nextUuid = Len(SeededMessages) + Cardinality(SeededChats) + Cardinality(SeededWorkspaces)
    /\ devBypass = FALSE
    /\ req = [r \in Slots |-> IdleRequest]
    /\ started = 0
    /\ env = ServerEnv
    /\ svc = RunningServices
    /\ MessageActions = {}
    /\ ui = <<>>
    /\ calc = NoCall
    /\ WorkspaceUsers = {}

NextActions ==
    \/ ActStart(1, MaxActionRequests, UserIds)
    \/ ActStep(1)
    \/ EndRequest(1)

SpecActions == InitActions /\ [][NextActions]_vars

\* action requests of one caller, their round trips interleaved
NextToggles ==
    \E r \in Slots :
       \/ ActStart(r, MaxConcRequests, ConcCallers)
       \/ ActStep(r)

SpecToggles == InitActions /\ [][NextToggles]_vars

\* the workspace routes and DELETE /chat/:chatId, requests served one at a
\* time, over the stored workspaces and chats of two administrators
SpecWorkspaces ==
    InitActions /\ [][\/ WsStart(1, MaxActionRequests, UserIds)
                      \/ WsWorkspaceCheck(1)
                      \/ WsUpdate(1)
                      \/ WsDelete(1)
                      \/ WsAssignUser(1)
                      \/ WsRemoveUser(1)
                      \/ WsUserAccess(1)
                      \/ ArchiveChat(1)
                      \/ EndRequest(1)]_vars

\* the dashboard of one signed-in user on a new conversation
InitDashboard ==
    /\ Users = {[id |-> DashUserId, email |-> DerivedEmail(DashUserId)]}
    /\ Workspaces = {}
    /\ Chats = {}
    /\ Messages = <<>>
    /\ nextUuid = 0
    /\ devBypass = FALSE
    /\ req = [r \in Slots |-> IdleRequest]
    /\ started = 0
    /\ env = ServerEnv
    /\ svc = RunningServices
    /\ MessageActions = {}
    /\ ui = InitialDashboard
    /\ calc = NoCall
    /\ WorkspaceUsers = {}

NextDashboard ==
    \/ SelectFile
    \/ \E c \in CallSlots : SendStep(c)
    \/ LoadFetch
    \/ LoadApply

SpecDashboard == InitDashboard /\ [][NextDashboard]_vars

\* the dashboard showing a loaded conversation: a user message, two AI
\* responses, the temporary AI message of a send under way, an error message
InitLikes ==
    /\ Users = {[id |-> DashUserId, email |-> DerivedEmail(DashUserId)]}
    /\ Workspaces = {}
    /\ Chats = {}
    /\ Messages = <<>>
    /\ nextUuid = 0
    /\ devBypass = FALSE
    /\ req = [r \in Slots |-> IdleRequest]
    /\ started = 0
    /\ env = ServerEnv
    /\ svc = RunningServices
    /\ MessageActions = {}
    /\ ui = [messages |-> <<[id |-> Uuid(3), isUser |-> TRUE, isLocal |-> FALSE],
                            [id |-> Uuid(4), isUser |-> FALSE, isLocal |-> FALSE],
                            [id |-> Uuid(6), isUser |-> FALSE, isLocal |-> FALSE],
                            [id |-> "temp-ai-0", isUser |-> FALSE, isLocal |-> TRUE],
                            [id |-> "error-0", isUser |-> FALSE, isLocal |-> TRUE]>>,
             messageActions |-> [id \in {Uuid(4), Uuid(6)} |->
                                   [liked |-> FALSE, disliked |-> FALSE,
                                    starred |-> FALSE, bookmarked |-> FALSE]],
             likedMessages |-> <<>>, dislikedMessages |-> <<>>, bookmarkedMessages |-> <<>>,
             clicks |-> 0,
             call |-> [c \in CallSlots |->
                         [pc |-> "idle", messageId |-> NULL, action |-> "none",
                          isCurrentlyActive |-> FALSE]]]
    /\ calc = NoCall
    /\ WorkspaceUsers = {}

NextLikes ==
    \E c \in CallSlots :
       \/ HandleMessageAction(c)
       \/ MessageActionSettle(c)

SpecLikes == InitLikes /\ [][NextLikes]_vars

\* one call of extractFileContent, for every stored text and storage outcome
InitExtract ==
    /\ Users = {}
    /\ Workspaces = {}
    /\ Chats = {}
    /\ Messages = <<>>
    /\ nextUuid = 0
    /\ devBypass = FALSE
    /\ req = [r \in Slots |-> IdleRequest]
    /\ started = 0
    /\ env = ServerEnv
    /\ svc = RunningServices
    /\ MessageActions = {}
    /\ ui = <<>>
    /\ \E n \in ContentLengths, originalName \in OriginalNames, storageFails \in BOOLEAN :
         calc = [fn |-> "extractFileContent", pc |-> "start", fileName |-> "blob-1",
                 originalName |-> originalName, fileContent |-> StoredText(n),
                 storageFails |-> storageFails, threw |-> FALSE,
                 result |-> [fileName |-> NULL, originalName |-> NULL, content |-> <<>>,
                             size |-> 0]]
    /\ WorkspaceUsers = {}

NextExtract ==
    \/ ExtractStart
    \/ ExtractFinish

SpecExtract == InitExtract /\ [][NextExtract]_vars

\* one call of analyzeFile, for every answer of the model
InitAnalyze ==
    /\ Users = {}
    /\ Workspaces = {}
    /\ Chats = {}
    /\ Messages = <<>>
    /\ nextUuid = 0
    /\ devBypass = FALSE
    /\ req = [r \in Slots |-> IdleRequest]
    /\ started = 0
    /\ env = ServerEnv
    /\ svc = RunningServices
    /\ MessageActions = {}
    /\ ui = <<>>
    /\ \E answer \in Answers, tokens \in {0, 5}, n \in {0, 5},
          storageFails \in BOOLEAN, llmFails \in BOOLEAN :
         calc = [fn |-> "analyzeFile", pc |-> "start", fileName |-> "blob-1",
                 fileContent |-> StoredText(n), storageFails |-> storageFails,
                 llmFails |-> llmFails, answer |-> answer, tokens |-> tokens,
                 prompt |-> <<>>, threw |-> FALSE,
                 result |-> [summary |-> JsUndefined, keyPoints |-> JsUndefined,
                             sentiment |-> JsUndefined, language |-> JsUndefined,
                             tokensUsed |-> 0]]
    /\ WorkspaceUsers = {}

NextAnalyze ==
    \/ AnalyzeStart
    \/ AnalyzeRead
    \/ AnalyzeFinish

SpecAnalyze == InitAnalyze /\ [][NextAnalyze]_vars

\* the title POST /chat/message gives the chat it creates, for messages of
\* 0..2 and about TitleChars characters, blank or not, and 0..MaxFiles files
InitTitle ==
    /\ Users = {}
    /\ Workspaces = {}
    /\ Chats = {}
    /\ Messages = <<>>
    /\ nextUuid = 0
    /\ devBypass = FALSE
    /\ req = [r \in Slots |-> IdleRequest]
    /\ started = 0
    /\ env = ServerEnv
    /\ svc = RunningServices
    /\ MessageActions = {}
    /\ ui = <<>>
    /\ \E message \in {<<>>, <<" ">>, <<" ", "\n">>, <<" ", "h", "i">>}
                      \cup {[i \in 1..n |-> ToString(i % 10)] :
                              n \in {1, 2} \cup ((TitleChars - 1)..(TitleChars + 2))},
          n \in 0..MaxFiles, present \in BOOLEAN :
         \E names \in [1..n -> {"a.txt", "b.pdf"}] :
            /\ present \/ n = 0
            /\ calc = [fn |-> "chatTitle", pc |-> "start", message |-> message,
                       files |-> [present |-> present, isArray |-> present,
                                  items |-> [i \in 1..n |->
                                               [originalName |-> names[i],
                                                url |-> "https://blob/" \o names[i]]]],
                       defaultTitle |-> <<>>, title |-> <<>>]
    /\ WorkspaceUsers = {}

\* lines 264-311: the request is refused, or defaultTitle is computed
TitleDefault ==
    /\ calc.fn = "chatTitle" /\ calc.pc = "start"
    /\ calc' = IF MessageValidation(calc.message, calc.files) # "ok"
               THEN [calc EXCEPT !.pc = "refused"]
               ELSE [calc EXCEPT !.pc = "chat",
                        !.defaultTitle = DefaultTitle(calc.message, calc.files)]
    /\ UNCHANGED <<dbVars, devBypass, req, started, env, svc, MessageActions, ui, WorkspaceUsers>>

\* lines 427-443: no chatId was given, the chat is created with its title
TitleChat ==
    /\ calc.fn = "chatTitle" /\ calc.pc = "chat"
    /\ calc' = [calc EXCEPT !.pc = "created",
                   !.title = ChatTitle(calc.message, calc.defaultTitle)]
    /\ UNCHANGED <<dbVars, devBypass, req, started, env, svc, MessageActions, ui, WorkspaceUsers>>

NextTitle ==
    \/ TitleDefault
    \/ TitleChat

SpecTitle == InitTitle /\ [][NextTitle]_vars

----------------------------------------------------------------------------
(* Properties of POST /chat/message, requests served one at a time (Spec). *)

IsPrefix(a, b) == Len(a) <= Len(b) /\ a = SubSeq(b, 1, Len(a))

Contains(seq, x) == \E i \in 1..Len(seq) : seq[i] = x

MessageStepOrder ==
    <<"user", "workspace", "chat", "userMessage", "completion", "assistantMessage", "counters">>

\* the Messages row with this id
MessageRows(id) == {i \in 1..Len(Messages) : Messages[i].id = id}

\* the rows the request has appended to Messages since it was received
AddedMessages(q) == SubSeq(Messages, Len(q.before.messages) + 1, Len(Messages))

\* messageCount of a chat in a Chats table (0 for a chat that is not in it)
CountIn(chats, chatId) ==
    IF \E c \in chats : c.id = chatId
    THEN (CHOOSE c \in chats : c.id = chatId).messageCount
    ELSE 0

\* C1: a request that reaches the chat-completion call has gone through the
\* steps user, workspace, chat, user-message INSERT in this order before it,
\* and assistant-message INSERT, counters UPDATE after it; the call is made
\* once, only with the user message already stored, and never for a request
\* answered 400 or 404.
C1_CompletionOrder ==
    \A r \in Slots :
      LET q == req[r]
      IN  q.route = "message" =>
            /\ IsPrefix(q.log, MessageStepOrder)
            /\ q.llmCalls <= 1
            /\ q.llmCalls = 1 <=> Contains(q.log, "completion")
            /\ q.llmCalls = 1 =>
                 \E i \in MessageRows(q.userMessageId) :
                    /\ Messages[i].role = "user"
                    /\ Messages[i].chatId = q.actualChatId
                    /\ i > Len(q.before.messages)
            /\ q.status \in {400, 404} => q.llmCalls = 0
            /\ (q.pc = "done" /\ q.llmCalls = 1) => q.log = MessageStepOrder

C1_Witness ==
    \E r \in Slots :
       /\ req[r].route = "message" /\ req[r].pc = "done" /\ req[r].status = 200
       /\ req[r].llmCalls = 1 /\ req[r].log = MessageStepOrder

\* C2: when the chat-completion call throws, the request ends with status
\* 500 'Failed to get AI response', having appended to Messages its user
\* message and then an assistant message with the placeholder text, both in
\* the resolved chat, and having raised that chat's messageCount by 2.
C2_CompletionFailure ==
    \A r \in Slots :
      LET q == req[r]
      IN  (q.route = "message" /\ q.pc = "done" /\ q.llmCalls = 1 /\ q.openAIError) =>
            /\ q.status = 500 /\ q.error = "Failed to get AI response"
            /\ Len(AddedMessages(q)) = 2
            /\ AddedMessages(q)[1] =
                 [id |-> q.userMessageId, chatId |-> q.actualChatId, userId |-> q.userId,
                  role |-> "user", content |-> q.content]
            /\ AddedMessages(q)[2].role = "assistant"
            /\ AddedMessages(q)[2].chatId = q.actualChatId
            /\ AddedMessages(q)[2].content = <<PlaceholderText>>
            /\ \E c \in Chats : c.id = q.actualChatId
            /\ CountIn(Chats, q.actualChatId) = CountIn(q.before.chats, q.actualChatId) + 2

C2_Witness ==
    \E r \in Slots :
       /\ req[r].route = "message" /\ req[r].pc = "done"
       /\ req[r].llmCalls = 1 /\ req[r].openAIError
       /\ CountIn(req[r].before.chats, req[r].actualChatId) > 0

\* C3 (as claimed): a request that got past validation and the user,
\* workspace and chat steps ends having added exactly one user row and one
\* assistant row with the resolved chatId and the caller's userId, and with
\* the counters of that chat updated once.
C3_TwoRowsOneUpdate ==
    \A r \in Slots :
      LET q == req[r]
      IN  (q.route = "message" /\ q.pc = "done" /\ Contains(q.log, "chat") /\ q.status # 400) =>
            /\ Len(AddedMessages(q)) = 2
            /\ AddedMessages(q)[1].role = "user"
            /\ AddedMessages(q)[2].role = "assistant"
            /\ \A i \in 1..2 : /\ AddedMessages(q)[i].chatId = q.actualChatId
                               /\ AddedMessages(q)[i].userId = q.userId
            /\ CountIn(Chats, q.actualChatId) = CountIn(q.before.chats, q.actualChatId) + 2

\* C4 (as claimed): when the request carries a chatId for which the caller
\* owns no Chats row, a Chats row with the resolved chat id exists before
\* the user message is inserted, and the request does not fail for lack of it.
C4_ChatCreatedIfMissing ==
    \A r \in Slots :
      LET q == req[r]
      IN  (q.route = "message" /\ q.chatId # NULL
           /\ ~(\E c \in q.before.chats : c.id = q.chatId /\ c.userId = q.userId)) =>
            /\ q.pc = "userMessage" => \E c \in Chats : c.id = q.actualChatId
            /\ q.violation # "fk_messages_chat"

\* C5 (as claimed): without a Users row of the caller and outside bypass
\* mode the answer is 404 'User not found' and no table has changed; in
\* bypass mode a Users row with the caller's id exists once the user step
\* has ended.
UserStepPcs == {"idle", "userCheck", "emailCheck", "userInsert", "userUpdate"}

C5_EnsureUser ==
    \A r \in Slots :
      LET q == req[r]
      IN  (q.route = "message" /\ q.pc \notin UserStepPcs /\ q.status # 400) =>
            /\ (~devBypass /\ UsersWithId(q.userId) = {}) =>
                  /\ q.status = 404 /\ q.error = "User not found"
                  /\ Snapshot = q.before
            /\ devBypass => UsersWithId(q.userId) # {}

----------------------------------------------------------------------------
(* Properties of interleaved requests (SpecConc).                          *)

\* C6 (as claimed): with the round trips of two requests interleaved, no
\* request fails on the primary key or the unique email of Users, and two
\* requests of one user that name no workspace end up with the same
\* workspace, as they do when one runs after the other.
C6_FirstRequestsIndependent ==
    /\ \A r \in Slots : req[r].violation \notin {"pk_users", "unique_email"}
    /\ \A r1, r2 \in Slots :
         ( /\ r1 # r2
           /\ req[r1].userId = req[r2].userId
           /\ req[r1].workspaceId = NULL /\ req[r2].workspaceId = NULL
           /\ req[r1].actualWorkspaceId # NULL /\ req[r2].actualWorkspaceId # NULL )
         => req[r1].actualWorkspaceId = req[r2].actualWorkspaceId

----------------------------------------------------------------------------
(* Properties of the user step of both routes (SpecRoutes).                *)

\* C10 (as claimed): with requests served one at a time, the INSERT into
\* Users is reached only when no row has the caller's id or derived email,
\* and neither it nor UPDATE Users SET id violates a primary-key, unique or
\* foreign-key constraint.
C10_UserCreationNoViolation ==
    \A r \in Slots :
      LET q == req[r]
      IN  /\ q.pc = "userInsert" =>
               /\ UsersWithId(q.userId) = {}
               /\ UsersWithEmail(DerivedEmail(q.userId)) = {}
          /\ q.violation \notin {"pk_users", "unique_email", "fk_users"}

----------------------------------------------------------------------------
(* Properties of start-up (SpecAzure).                                     *)

BlobConfigAbsent ==
    ~env["storageAccountName"]
    \/ (~env["storageConnectionString"] /\ ~env["storageAccountKey"])

AppConfigAbsent == env["mockAppConfig"] \/ ~env["appConfigConnectionString"]

\* C7 (as claimed): once initializeAzureServices has returned,
\* blobServiceClient and appConfigClient are each a real or a mock client,
\* and the mock one whenever their settings are absent, whatever happened
\* to the SQL and OpenAI initialisation.
C7_BlobAndAppConfigAlwaysSet ==
    svc.pc = "returned" =>
      /\ svc.blobServiceClient \in {"real", "mock"}
      /\ svc.appConfigClient \in {"real", "mock"}
      /\ BlobConfigAbsent => svc.blobServiceClient = "mock"
      /\ AppConfigAbsent => svc.appConfigClient = "mock"

\* C8 (as claimed): when the SQL or the OpenAI initialisation fails, no
\* mock client stands in for them and initializeAzureServices ends by
\* raising the error to its caller.
C8_SqlAndOpenAIFailFast ==
    (svc.pc = "returned" /\ (svc.sqlPool # "real" \/ svc.openAIClient # "real")) =>
      /\ svc.sqlPool # "mock"
      /\ svc.openAIClient # "mock"
      /\ svc.outcome = "rejected"

\* C9 (as claimed): once the SQL initialisation has run, the pool is the
\* mock database exactly when MOCK_DATABASE is 'true'.
C9_MockDatabaseWhenEnabled ==
    svc.pc # "sql" => (svc.sqlPool = "mock" <=> env["mockDatabase"])

----------------------------------------------------------------------------
(* Properties of the workspace and chat steps of both routes (SpecRoutes). *)

DefaultWorkspacesOf(userId) ==
    {w \in Workspaces : w.ownerId = userId /\ w.name = "Default Workspace"}

\* C11 (as claimed): with requests served one at a time, whatever
\* workspaceId they carry, no user owns more than one auto-created
\* 'Default Workspace'.
C11_OneDefaultWorkspace ==
    \A u \in UserIds : Cardinality(DefaultWorkspacesOf(u)) <= 1

\* C12: a Chats row that a step of POST /chat or POST /chat/message adds has
\* the caller as userId and a workspaceId naming a Workspaces row owned by
\* the caller, whatever workspaceId the request carried.
C12_ChatOwnership ==
    [][\A c \in Chats' :
         c.id \notin {d.id : d \in Chats} =>
           /\ \E r \in Slots : req'[r].actualChatId = c.id /\ req'[r].userId = c.userId
           /\ c.workspaceId # NULL
           /\ \E w \in Workspaces' : w.id = c.workspaceId /\ w.ownerId = c.userId]_vars

\* a chat created by a request that named a workspace of another user
C12_Witness ==
    \E r \in Slots :
       /\ req[r].pc = "done" /\ req[r].chatId = NULL
       /\ \E w \in Workspaces : w.id = req[r].workspaceId /\ w.ownerId # req[r].userId
       /\ \E c \in Chats : c.id = req[r].actualChatId /\ c.userId = req[r].userId

----------------------------------------------------------------------------
(* Properties of the message-action route (SpecActions).                   *)

\* C13 (as claimed): every MessageActions row refers to a Messages row
\* whose role is 'assistant'.
C13_ActionsOnAssistantOnly ==
    \A a \in MessageActions :
       \E i \in 1..Len(Messages) :
          Messages[i].id = a.messageId /\ Messages[i].role = "assistant"

----------------------------------------------------------------------------
(* Properties of the dashboard (SpecDashboard).                            *)

\* positions of the entries of the list with this id
PositionsOf(messages, id) == {i \in 1..Len(messages) : messages[i].id = id}

\* the list as a sendMessage call is to leave it when it settles
Reconciled(messages, c, k) ==
    /\ ~\E i \in 1..Len(messages) :
          /\ messages[i].by = ToString(c)
          /\ messages[i].id \in {k.tempId, k.tempAiId}
    /\ k.outcome = "success" =>
          /\ Cardinality(PositionsOf(messages, k.userMessageId)) = 1
          /\ Cardinality(PositionsOf(messages, k.aiMessageId)) = 1
          /\ \A i \in PositionsOf(messages, k.userMessageId) :
                \A j \in PositionsOf(messages, k.aiMessageId) : i < j
    /\ k.outcome = "failure" =>
          Cardinality({i \in 1..Len(messages) :
                         messages[i].by = ToString(c) /\ messages[i].isError}) = 1

\* C14 (as claimed): in the step in which a sendMessage call settles, the
\* messages list holds none of the two temporary entries of the call; after
\* a success it holds the user message and the AI response of the response,
\* each once and in this order; after a failure it holds one error entry of
\* the call instead.
C14_Reconciliation ==
    [][\A c \in CallSlots :
         (ui.call[c].pc # "settled" /\ ui'.call[c].pc = "settled")
            => Reconciled(ui'.messages, c, ui'.call[c])]_vars

\* lists of the files uploaded with success
UploadedFiles == {ui.uploaded[i] : i \in 1..Len(ui.uploaded)}

\* every sendMessage call made so far has settled and no upload is under way
NoSendUnderWay ==
    \A c \in CallSlots :
       /\ ui.call[c].pc \in {"idle", "settled"}
       /\ \A i \in 1..Len(ui.call[c].up) : ui.call[c].up[i] # "inflight"

\* C15 (as claimed): once the sendMessage calls made so far have settled,
\* no file of pendingFiles has been uploaded with success, and no file has
\* been uploaded twice.
C15_PendingNotUploaded ==
    NoSendUnderWay =>
      /\ \A i \in 1..Len(ui.pendingFiles) : ui.pendingFiles[i].file \notin UploadedFiles
      /\ \A i, j \in 1..Len(ui.uploaded) : ui.uploaded[i] = ui.uploaded[j] => i = j

----------------------------------------------------------------------------
(* Properties of FileAnalysisService.                                      *)

\* C17: extractFileContent returns without throwing; a stored text of at
\* most 8000 characters comes back unchanged, a longer one as its first
\* 8000 characters, size being the length of the stored text; when the
\* storage fails the content is '[Content not available for file:
\* <originalName>]' and size is 0.
C17_ExtractFileContent ==
    (calc.fn = "extractFileContent" /\ calc.pc = "returned") =>
      /\ ~calc.threw
      /\ calc.result.originalName = calc.originalName
      /\ IF calc.storageFails
         THEN /\ calc.result.content =
                   <<"[Content not available for file: ", calc.originalName, "]">>
              /\ calc.result.size = 0
         ELSE /\ calc.result.size = Len(calc.fileContent)
              /\ Len(calc.fileContent) <= 8000 => calc.result.content = calc.fileContent
              /\ Len(calc.fileContent) > 8000 =>
                    /\ Len(calc.result.content) = 8000
                    /\ \A i \in 1..8000 : calc.result.content[i] = calc.fileContent[i]

\* a stored text longer than the limit has been cut
C17_Witness ==
    /\ calc.fn = "extractFileContent" /\ calc.pc = "returned" /\ ~calc.storageFails
    /\ Len(calc.fileContent) > 8000
    /\ Len(calc.result.content) < Len(calc.fileContent)

\* the shape the prompt of analyzeContentWithAI asks for
ShapeAsAsked(a) ==
    /\ a.summary.type = "string"
    /\ a.keyPoints.type = "array"
    /\ a.sentiment \in {JsString(<<"p", "o", "s", "i", "t", "i", "v", "e">>),
                        JsString(<<"n", "e", "g", "a", "t", "i", "v", "e">>),
                        JsString(<<"n", "e", "u", "t", "r", "a", "l">>)}
    /\ a.language.type = "string"

AnalysisReturned ==
    calc.fn = "analyzeFile" /\ calc.pc = "returned" /\ ~calc.storageFails /\ ~calc.llmFails

\* C16 (as claimed): whatever text the model answers, the analysis has a
\* string summary, a list keyPoints, a sentiment among positive, negative,
\* neutral and a language; an answer that is not JSON of that shape is
\* replaced by the fallback made from its first 200 characters; a failure
\* to parse is not thrown.
C16_ShapeRecovery ==
    AnalysisReturned =>
      /\ ~calc.threw
      /\ ShapeAsAsked(calc.result)
      /\ \/ calc.result = ExtractAnalysisFromText(calc.answer, calc.tokens)
         \/ JsonParse(calc.answer).type = "object"

\* C18 (as claimed): POST /chat/message never appends a Messages row to a
\* chat whose userId is not the caller, and never changes the messageCount
\* of such a chat.
C18_NoForeignChatWrites ==
    [][/\ \A i \in (Len(Messages) + 1)..Len(Messages') :
            \A c \in Chats' :
               c.id = Messages'[i].chatId => c.userId = Messages'[i].userId
       /\ \A c \in Chats, d \in Chats' :
            (c.id = d.id /\ c.messageCount # d.messageCount) => c.userId = req[1].userId]_vars

\* 'File: <first originalName>', followed by ' and <n-1> more' for n > 1 files
FileTitle(items) ==
    IF Len(items) > 1
    THEN <<"File: " \o items[1].originalName, " and " \o ToString(Len(items) - 1) \o " more">>
    ELSE <<"File: " \o items[1].originalName>>

\* C19 (as claimed): the chat POST /chat/message creates is titled with the
\* first 100 characters of the message when the message has text that is
\* not white space, and with 'File: <first originalName>' (and
\* ' and <n-1> more' when n > 1) when the message is empty or white space
\* only and n >= 1 files are attached.
C19_ChatTitle ==
    (calc.fn = "chatTitle" /\ calc.pc = "created") =>
      /\ ~MessageBlank(calc.message) =>
           /\ Len(calc.title) <= 100
           /\ IsPrefix(calc.title, calc.message)
           /\ (Len(calc.title) = 100 \/ calc.title = calc.message)
      /\ (MessageBlank(calc.message) /\ Len(calc.files.items) >= 1) =>
           calc.title = FileTitle(calc.files.items)

RowsOfChat(chatId) == {i \in 1..Len(Messages) : Messages[i].chatId = chatId}

\* C20 (as claimed): when a POST /chat or POST /chat/message request has
\* ended, whatever its outcome, the messageCount of every Chats row is the
\* number of Messages rows with its chatId.
C20_CountersMatchRows ==
    (\E r \in Slots : req[r].pc = "done" /\ req[r].route \in {"chat", "message"}) =>
      \A c \in Chats : c.messageCount = Cardinality(RowsOfChat(c.id))

\* C21 (as claimed): the list given to getChatCompletion is the system
\* prompt followed by the stored messages of the chat in the order of their
\* creation, and the message of this request is in it once, as its last
\* element.
C21_PromptIsStoredHistory ==
    \A r \in Slots :
      LET q == req[r]
          current == [role |-> "user", content |-> q.content]
      IN  (q.route = "message" /\ q.pc = "assistantMessage") =>
            /\ q.prompt = <<[role |-> "system", content |-> <<"system-prompt">>]>>
                          \o ChatHistory(q.actualChatId)
            /\ q.prompt[Len(q.prompt)] = current
            /\ Messages[Len(Messages)].id = q.userMessageId
            /\ Cardinality({i \in 1..Len(q.prompt) : q.prompt[i] = current})
                 = Cardinality({i \in 1..Len(Messages) :
                                  /\ Messages[i].chatId = q.actualChatId
                                  /\ Messages[i].role = "user"
                                  /\ Messages[i].content = q.content})

\* C22 (as claimed): a POST /chat/message request answered 400 has written
\* nothing: Users, Workspaces, Chats and Messages are as they were when the
\* request arrived, whatever the message and the files of its body.
C22_BadRequestWritesNothing ==
    \A r \in Slots :
      LET q == req[r]
      IN  (q.route = "message" /\ q.pc = "done" /\ q.status = 400) =>
            /\ Users = q.before.users
            /\ Workspaces = q.before.workspaces
            /\ Chats = q.before.chats
            /\ Messages = q.before.messages

ActionKeys(rows) == {<<a.messageId, a.userId, a.actionType>> : a \in rows}

\* the message of the request is in the chat of the request, which is the caller's
InCallersChat(q) ==
    \E i \in 1..Len(Messages) :
       /\ Messages[i].id = q.messageId
       /\ Messages[i].chatId = q.chatId
       /\ \E c \in Chats : c.id = q.chatId /\ c.userId = q.userId

\* C23: an action request with an action type outside like, dislike,
\* bookmark, star is answered 400, one for a message that is not in a chat
\* of the caller 404, both leaving MessageActions as it was; every other is
\* answered 200 and toggles: a stored row (messageId, userId, actionType) is
\* deleted and active is false, a missing one is inserted once and active
\* is true, so that a second toggle undoes the first; the rows of other
\* messages, users and action types stay as they were.
C23_Toggle ==
    \A r \in Slots :
      LET q == req[r]
          key == <<q.messageId, q.userId, q.actionType>>
          was == q.before.actions
      IN  (q.route = "action" /\ q.pc = "done") =>
            /\ q.actionType \notin ActionTypes =>
                 q.status = 400 /\ MessageActions = was
            /\ (q.actionType \in ActionTypes /\ ~InCallersChat(q)) =>
                 q.status = 404 /\ MessageActions = was
            /\ (q.actionType \in ActionTypes /\ InCallersChat(q)) =>
                 /\ q.status = 200
                 /\ {a \in MessageActions : <<a.messageId, a.userId, a.actionType>> # key}
                      = {a \in was : <<a.messageId, a.userId, a.actionType>> # key}
                 /\ key \in ActionKeys(was) =>
                      ~q.active /\ key \notin ActionKeys(MessageActions)
                 /\ key \notin ActionKeys(was) =>
                      /\ q.active
                      /\ Cardinality(ActionsWith(q.messageId, q.userId, q.actionType)) = 1

\* the second of two toggles has removed the row the first one stored, next
\* to a row of another action type
C23_Witness ==
    \E r \in Slots :
      LET q == req[r]
      IN  /\ q.route = "action" /\ q.pc = "done" /\ q.status = 200 /\ ~q.active
          /\ <<q.messageId, q.userId, q.actionType>> \in ActionKeys(q.before.actions)
          /\ \E a \in MessageActions :
               a.messageId = q.messageId /\ a.userId = q.userId /\ a.actionType # q.actionType

\* C24 (as claimed): two toggles of one user for the same message and
\* action type, interleaved at their round trips, both end without a 500
\* and leave the row present exactly when it was present before both.
C24_ConcurrentToggles ==
    LET p == req[1]
        q == req[2]
        key == <<p.messageId, p.userId, p.actionType>>
    IN  (/\ p.route = "action" /\ q.route = "action"
         /\ p.pc = "done" /\ q.pc = "done"
         /\ p.status \notin {400, 404} /\ q.status \notin {400, 404}
         /\ key = <<q.messageId, q.userId, q.actionType>>) =>
           /\ p.status = 200 /\ q.status = 200
           /\ key \in ActionKeys(MessageActions) <=> key \in ActionKeys(p.before.actions)

InList(list, id) == \E i \in 1..Len(list) : list[i] = id

\* C25 (as claimed): whatever actions were clicked, no message is liked and
\* disliked at once: not in messageActions, and not in the two lists
\* likedMessages and dislikedMessages.
C25_LikeExcludesDislike ==
    \A id \in DOMAIN ui.messageActions :
       /\ ~(ui.messageActions[id].liked /\ ui.messageActions[id].disliked)
       /\ ~(InList(ui.likedMessages, id) /\ InList(ui.dislikedMessages, id))

\* the caller's own workspace with this id, as stored when the request came
OwnedBefore(q) ==
    \E w \in q.before.workspaces : w.id = q.workspaceId /\ w.ownerId = q.userId

\* C26 (as claimed): DELETE /workspaces/:id by the owner answers 400
\* 'Cannot delete workspace' exactly when the workspace has a chat that is
\* not archived; with none left, archived chats included, it answers 200
\* and the Workspaces row is gone.
C26_DeleteAfterArchive ==
    \A r \in Slots :
      LET q == req[r]
          open == \E c \in q.before.chats : c.workspaceId = q.workspaceId /\ ~c.isArchived
      IN  (q.route = "delete" /\ q.pc = "done" /\ OwnedBefore(q)) =>
             /\ (q.status = 400 /\ q.error = "Cannot delete workspace") <=> open
             /\ ~open => /\ q.status = 200
                         /\ ~(\E w \in Workspaces : w.id = q.workspaceId)

\* C27: a request to one of the five guarded workspace routes for a
\* workspace that does not exist or is owned by somebody else changes no
\* row of Workspaces or WorkspaceUsers at any of its steps, and, unless its
\* body was refused with 400, it is answered 404 'Workspace not found'.
C27_OwnershipGuard ==
    \A r \in Slots :
      LET q == req[r]
      IN  (q.route \in {"update", "delete", "assign", "remove", "access"}
           /\ ~OwnedBefore(q)) =>
             /\ Workspaces = q.before.workspaces
             /\ WorkspaceUsers = q.before.assignments
             /\ q.pc \in {"workspaceCheck", "done"}
             /\ q.pc = "done" /\ q.status # 400 =>
                   q.status = 404 /\ q.error = "Workspace not found"

\* assign-user for a workspace of another administrator, with users already
\* assigned to it, was answered 404
C27_Witness ==
    \E r \in Slots :
      LET q == req[r]
      IN  /\ q.route = "assign" /\ q.pc = "done" /\ q.status = 404
          /\ \E w \in Workspaces : w.id = q.workspaceId /\ w.ownerId # q.userId
          /\ \E a \in WorkspaceUsers : a.workspaceId = q.workspaceId

====
